---- MODULE Spec2Model ----
(***************************************************************************)
(* A model of yajsml's module server (Server.handle and its helpers) and   *)
(* of its associators.  JavaScript strings are modelled as sequences of    *)
(* one-character strings, so that split/join/slice/replace are computed    *)
(* the way the code computes them.                                         *)
(***************************************************************************)
EXTENDS Integers, Sequences, FiniteSets, TLC

VARIABLES
  mode,       \* which entry point of the library is being exercised
  arg,        \* the arguments of a pure function under test
  out,        \* its result ("pending" until it has been applied)
  server,     \* the Server instance: its configuration and associator
  request,    \* the incoming request
  pc,         \* position of the async body of Server.handle
  frame,      \* the local variables of Server.handle that live across awaits
  fetches,    \* the backend fetches issued so far, in order
  response,   \* what was written to the response object
  nextCalls   \* the calls made to the `next` callback, in order

vars == <<mode, arg, out, server, request, pc, frame, fetches, response, nextCalls>>

(***************************************************************************)
(* Bounds of the model.                                                    *)
(***************************************************************************)
MaxPathLen == 4        \* longest path string fed to relativePath
MaxPieces == 3         \* pieces a module path fed to SimpleAssociator is made of
MaxEntries == 2        \* most member entries in a simple mapping, all bundles together
MaxMembers == 3        \* most member header sets merged at once
MaxSeconds == 2        \* latest timestamp of a date header, in seconds
MaxHandlers == 2       \* most requests handled concurrently by one Server
MaxHops == 4           \* most redirects a client follows

(***************************************************************************)
(* Strings.                                                                *)
(***************************************************************************)
Chars(S, n) == UNION {[1..k -> S] : k \in 0..n}

Max(a, b) == IF a >= b THEN a ELSE b
Min(a, b) == IF a <= b THEN a ELSE b

\* String.prototype.split with a one-character separator.
Split(s, c) ==
  LET F[i \in 0..Len(s)] ==
        IF i = 0 THEN << <<>> >>
        ELSE LET p == F[i - 1] IN
             IF s[i] = c THEN Append(p, <<>>)
             ELSE [p EXCEPT ![Len(p)] = Append(@, s[i])]
  IN F[Len(s)]

\* Array.prototype.join with a one-character separator.
Join(segs, c) ==
  LET F[i \in 0..Len(segs)] ==
        IF i = 0 THEN <<>>
        ELSE IF i = 1 THEN segs[1]
        ELSE F[i - 1] \o <<c>> \o segs[i]
  IN F[Len(segs)]

\* String.prototype.repeat.
Repeat(s, n) ==
  LET F[i \in 0..n] == IF i = 0 THEN <<>> ELSE F[i - 1] \o s
  IN F[n]

\* Array.prototype.pop: the array without its last element.
Pop(a) == SubSeq(a, 1, Len(a) - 1)

\* String.prototype.startsWith / indexOf(x) === 0, and endsWith.
StartsWith(s, p) == Len(p) <= Len(s) /\ SubSeq(s, 1, Len(p)) = p
EndsWith(s, p) == Len(p) <= Len(s) /\ SubSeq(s, Len(s) - Len(p) + 1, Len(s)) = p

\* String.prototype.slice(n) (n >= 0).
Slice(s, n) == SubSeq(s, n + 1, Len(s))

(***************************************************************************)
(* relativePath(from, to)                                                  *)
(***************************************************************************)
\* Number of leading components removed by the while loop that shifts
\* fromSplit and toSplit while their heads are equal.
CommonLen(fromSplit, toSplit) ==
  LET F[i \in 0..Len(fromSplit)] ==
        IF i = 0 THEN 0
        ELSE IF F[i - 1] = i - 1 /\ i <= Len(toSplit) /\ fromSplit[i] = toSplit[i]
             THEN i ELSE F[i - 1]
  IN F[Len(fromSplit)]

\* The relativePath of the previous release: it neither drops the last
\* component of `from` up front nor maps the empty result to './'.
relativePathLegacy(from, to) ==
  LET fromSplit == Split(from, "/")
      toSplit == Split(to, "/")
      both == Min(Len(fromSplit), Len(toSplit))
      F[k \in 0..both] ==
        IF k = 0 THEN 0
        ELSE IF F[k - 1] = k - 1 /\ fromSplit[k] = toSplit[k] THEN k ELSE F[k - 1]
      i == F[both]
      relative == IF Len(fromSplit) - i > 1
                  THEN Repeat(<<".", ".", "/">>, Len(fromSplit) - i - 1)
                  ELSE <<>>
  IN relative \o Join(SubSeq(toSplit, i + 1, Len(toSplit)), "/")

relativePath(from, to) ==
  LET fromSplit == Pop(Split(from, "/"))
      toAll == Split(to, "/")
      toFile == toAll[Len(toAll)]
      toSplit == Pop(toAll)
      n == CommonLen(fromSplit, toSplit)
      fromRest == SubSeq(fromSplit, n + 1, Len(fromSplit))
      toRest == Append(SubSeq(toSplit, n + 1, Len(toSplit)), toFile)
      relative == Repeat(<<".", ".", "/">>, Len(fromRest)) \o Join(toRest, "/")
  IN IF relative = <<>> THEN <<".", "/">> ELSE relative

(***************************************************************************)
(* Resolution of a relative URL reference against a base path, as the      *)
(* client does when it follows a Location header (RFC 3986 section 5.2:    *)
(* merge with the base's directory, then remove the dot segments).         *)
(***************************************************************************)
RemoveDotSegments(segs) ==
  LET n == Len(segs)
      F[i \in 0..n] ==
        IF i = 0 THEN <<>>
        ELSE LET acc == F[i - 1]
                 s == segs[i]
                 last == (i = n)
                 up == IF Len(acc) > 0 /\ ~(Len(acc) = 1 /\ acc[1] = <<>> /\ segs[1] = <<>>)
                       THEN Pop(acc) ELSE acc
             IN IF s = <<".">> THEN (IF last THEN Append(acc, <<>>) ELSE acc)
                ELSE IF s = <<".", ".">> THEN (IF last THEN Append(up, <<>>) ELSE up)
                ELSE Append(acc, s)
  IN F[n]

ResolveReference(base, ref) ==
  IF ref = <<>> THEN base
  ELSE IF ref[1] = "/" THEN Join(RemoveDotSegments(Split(ref, "/")), "/")
  ELSE Join(RemoveDotSegments(Pop(Split(base, "/")) \o Split(ref, "/")), "/")

\* A normalized path: no empty, '.' or '..' component, except that the
\* first component may be empty (a leading slash) and the last one may be
\* empty (a trailing slash).
IsNormalized(p) ==
  LET segs == Split(p, "/") IN
  /\ \A i \in 1..Len(segs) :
        /\ segs[i] # <<".">> /\ segs[i] # <<".", ".">>
        /\ (segs[i] = <<>> => (i = Len(segs) \/ (i = 1 /\ Len(segs) > 1)))

IsAbsolute(p) == Len(p) > 0 /\ p[1] = "/"

PathAlphabet == {"a", "b", "/"}
NormalizedPaths == {p \in Chars(PathAlphabet, MaxPathLen) : IsNormalized(p)}

(***************************************************************************)
(* JavaScript objects and Maps.  An object is the sequence of its own      *)
(* properties <<key, value>> in the order Object.entries lists them:       *)
(* array-index keys first, in ascending numeric order, then the other      *)
(* keys in insertion order.  A Map keeps plain insertion order.            *)
(***************************************************************************)
Null == <<"<null>">>           \* null / undefined where a string is expected

Digits == <<"0", "1", "2", "3", "4", "5", "6", "7", "8", "9">>
IsDigit(c) == \E i \in 1..10 : Digits[i] = c
DigitValue(c) == (CHOOSE i \in 1..10 : Digits[i] = c) - 1

\* A canonical array index: decimal digits without a leading zero.
IsArrayIndex(k) ==
  /\ Len(k) > 0
  /\ \A i \in 1..Len(k) : IsDigit(k[i])
  /\ (k[1] = "0" => Len(k) = 1)

IndexValue(k) ==
  LET F[i \in 0..Len(k)] == IF i = 0 THEN 0 ELSE 10 * F[i - 1] + DigitValue(k[i])
  IN F[Len(k)]

ObjHas(o, k) == \E i \in 1..Len(o) : o[i][1] = k
ObjGet(o, k) == o[CHOOSE i \in 1..Len(o) : o[i][1] = k][2]
ObjKeys(o) == [i \in 1..Len(o) |-> o[i][1]]

InsertAt(o, i, e) == SubSeq(o, 1, i - 1) \o <<e>> \o SubSeq(o, i, Len(o))

ObjSet(o, k, v) ==
  IF ObjHas(o, k)
  THEN [i \in 1..Len(o) |-> IF o[i][1] = k THEN <<k, v>> ELSE o[i]]
  ELSE IF IsArrayIndex(k)
  THEN LET before == {i \in 1..Len(o) :
                        IsArrayIndex(o[i][1]) /\ IndexValue(o[i][1]) < IndexValue(k)}
       IN InsertAt(o, Cardinality(before) + 1, <<k, v>>)
  ELSE Append(o, <<k, v>>)

\* Object.fromEntries of an array of [key, value] pairs.
ObjFromEntries(pairs) ==
  LET F[i \in 0..Len(pairs)] ==
        IF i = 0 THEN <<>> ELSE ObjSet(F[i - 1], pairs[i][1], pairs[i][2])
  IN F[Len(pairs)]

MapHas(m, k) == \E i \in 1..Len(m) : m[i][1] = k
MapGet(m, k) == IF MapHas(m, k) THEN m[CHOOSE i \in 1..Len(m) : m[i][1] = k][2] ELSE Null
MapSet(m, k, v) ==
  IF MapHas(m, k)
  THEN [i \in 1..Len(m) |-> IF m[i][1] = k THEN <<k, v>> ELSE m[i]]
  ELSE Append(m, <<k, v>>)

(***************************************************************************)
(* Associators.  An entry of a bundle's member list is a module path or    *)
(* an Alias object.                                                        *)
(***************************************************************************)
Module(p) == [kind |-> "path", name |-> p, target |-> Null]
Alias(a, t) == [kind |-> "alias", name |-> a, target |-> t]
IsAlias(m) == m.kind = "alias"

\* One iteration of the inner loop of associationsForSimpleMapping.
SimpleMappingModule(st, mapping, bundle, module) ==
  IF st.error # "none" THEN st
  ELSE
    LET moduleName == module.name
        targetName == IF IsAlias(module) THEN module.target ELSE Null
    IN IF MapHas(st.indirections, moduleName)
          /\ MapGet(st.indirections, moduleName) # targetName
       THEN [st EXCEPT !.error = "conflicting definition"]
       ELSE LET ind == MapSet(st.indirections, moduleName, targetName) IN
            IF IsAlias(module) THEN [st EXCEPT !.indirections = ind]
            ELSE IF ~ObjHas(mapping, moduleName) \/ moduleName = bundle
            THEN [st EXCEPT !.indirections = ind,
                            !.moduleToBundle = ObjSet(@, moduleName, bundle)]
            ELSE [st EXCEPT !.indirections = ind]

\* One iteration of the outer loop: a bundle and its modules.
SimpleMappingBundle(st, mapping, bundle, modules) ==
  IF st.error # "none" THEN st
  ELSE IF ObjHas(st.bundleToModules, bundle)
  THEN [st EXCEPT !.error = "bundle already defined"]
  ELSE LET st0 == [st EXCEPT !.bundleToModules = ObjSet(@, bundle, modules)]
           F[i \in 0..Len(modules)] ==
             IF i = 0 THEN st0
             ELSE SimpleMappingModule(F[i - 1], mapping, bundle, modules[i])
       IN F[Len(modules)]

\* A walk along the alias targets that keeps no set of seen names.
ResolveIndirectionUnchecked(indirections, moduleName) ==
  LET n == Len(indirections) + 1
      F[i \in 0..n] ==
        IF i = 0
        THEN [real |-> moduleName, next |-> MapGet(indirections, moduleName),
              seen |-> {moduleName}, loop |-> FALSE]
        ELSE LET s == F[i - 1] IN
             IF s.next = Null THEN s
             ELSE [real |-> s.next, next |-> MapGet(indirections, s.next),
                   seen |-> s.seen \cup {s.next}, loop |-> FALSE]
  IN [F[n] EXCEPT !.next = Null]

\* The while loop that follows the alias targets of moduleName:
\* [real, loop], loop being TRUE when a name is seen twice.
ResolveIndirection(indirections, moduleName) ==
  LET n == Len(indirections) + 1
      F[i \in 0..n] ==
        IF i = 0
        THEN [real |-> moduleName, next |-> MapGet(indirections, moduleName),
              seen |-> {moduleName}, loop |-> FALSE]
        ELSE LET s == F[i - 1] IN
             IF s.loop \/ s.next = Null THEN s
             ELSE IF s.next \in s.seen THEN [s EXCEPT !.loop = TRUE]
             ELSE [real |-> s.next, next |-> MapGet(indirections, s.next),
                   seen |-> s.seen \cup {s.next}, loop |-> FALSE]
  IN F[n]

\* A second loop that follows one alias target only.
SimpleMappingResolveOneStep(st, moduleName) ==
  IF st.error # "none" THEN st
  ELSE LET r == ResolveIndirection(st.indirections, moduleName)
           target == MapGet(st.indirections, moduleName)
           real == IF target = Null THEN moduleName ELSE target
       IN IF r.loop THEN [st EXCEPT !.error = "alias loop"]
          ELSE [st EXCEPT !.moduleToBundle =
                  ObjSet(@, moduleName, IF ObjHas(@, real) THEN ObjGet(@, real) ELSE real)]

\* One iteration of the second loop of associationsForSimpleMapping.
SimpleMappingResolve(st, moduleName) ==
  IF st.error # "none" THEN st
  ELSE LET r == ResolveIndirection(st.indirections, moduleName) IN
       IF r.loop THEN [st EXCEPT !.error = "alias loop"]
       ELSE [st EXCEPT !.moduleToBundle =
               ObjSet(@, moduleName,
                      IF ObjHas(@, r.real) THEN ObjGet(@, r.real) ELSE r.real)]

\* associationsForSimpleMapping(mapping): the table, or the error thrown.
\* The first loop of associationsForSimpleMapping, over the bundles.
SimpleMappingBundles(mapping) ==
  LET init == [bundleToModules |-> <<>>, moduleToBundle |-> <<>>,
               indirections |-> <<>>, error |-> "none"]
      F[i \in 0..Len(mapping)] ==
        IF i = 0 THEN init
        ELSE SimpleMappingBundle(F[i - 1], mapping, mapping[i][1], mapping[i][2])
  IN F[Len(mapping)]

associationsForSimpleMapping(mapping) ==
  LET st1 == SimpleMappingBundles(mapping)
      G[i \in 0..Len(st1.indirections)] ==
        IF i = 0 THEN st1
        ELSE SimpleMappingResolve(G[i - 1], st1.indirections[i][1])
      st2 == G[Len(st1.indirections)]
  IN [bundleToModules |-> st2.bundleToModules,
      moduleToBundle |-> st2.moduleToBundle,
      error |-> st2.error]

\* The property key a member of a bundle is used as: the path itself, and
\* for an Alias object the text every plain object converts to.
MemberKey(module) == IF IsAlias(module) THEN <<"[object Object]">> ELSE module.name

\* One iteration of the inner loop of complexMappingForAssociations: the
\* entry of `key` is created blank when missing, its primary becomes i and
\* its flag for package i is set (i counts from 0).
ComplexMappingKey(mapping, blankMapping, i, key) ==
  LET m0 == IF ObjHas(mapping, key) THEN mapping
            ELSE ObjSet(mapping, key, [primary |-> i, includes |-> blankMapping])
      cur == ObjGet(m0, key)
  IN ObjSet(m0, key, [primary |-> i, includes |-> [cur.includes EXCEPT ![i + 1] = TRUE]])

\* complexMappingForAssociations([packageModuleMap, modulePackageMap]).
complexMappingForAssociations(associations) ==
  LET packageModuleMap == associations.bundleToModules
      packages == ObjKeys(packageModuleMap)
      blankMapping == [i \in 1..Len(packages) |-> FALSE]
      Keys(m, i) ==
        LET members == ObjGet(packageModuleMap, packages[i + 1])
            G[j \in 0..Len(members)] ==
              IF j = 0 THEN m
              ELSE ComplexMappingKey(G[j - 1], blankMapping, i, MemberKey(members[j]))
        IN G[Len(members)]
      F[n \in 0..Len(packages)] == IF n = 0 THEN <<>> ELSE Keys(F[n - 1], n - 1)
  IN [packages |-> packages, mapping |-> F[Len(packages)]]

\* One iteration of the loop of associationsForComplexMapping over the
\* entries of `associations`.
ComplexMappingEntry(st, packages, path, association) ==
  LET G[i \in 0..Len(association.includes)] ==
        IF i = 0 THEN st.bundleToModules
        ELSE IF association.includes[i]
        THEN LET pkg == packages[i]
                 sofar == IF ObjHas(G[i - 1], pkg) THEN ObjGet(G[i - 1], pkg) ELSE <<>>
             IN ObjSet(G[i - 1], pkg, Append(sofar, Module(path)))
        ELSE G[i - 1]
  IN [bundleToModules |-> G[Len(association.includes)],
      moduleToBundle |-> ObjSet(st.moduleToBundle, path, packages[association.primary + 1])]

\* associationsForComplexMapping(packages, associations): the tables
\* [packageModuleMap, modulePackageMap].
associationsForComplexMapping(packages, associations) ==
  LET F[n \in 0..Len(associations)] ==
        IF n = 0 THEN [bundleToModules |-> <<>>, moduleToBundle |-> <<>>]
        ELSE ComplexMappingEntry(F[n - 1], packages, associations[n][1], associations[n][2])
  IN F[Len(associations)]

IdentityPreferredPath(modulePath) == modulePath
IdentityAssociatedModulePaths(modulePath) == <<Module(modulePath)>>

\* StaticAssociator over [bundleToModules, moduleToBundle], its `next`
\* being the default IdentityAssociator.
StaticPreferredPath(table, modulePath) ==
  IF ObjHas(table.moduleToBundle, modulePath)
  THEN ObjGet(table.moduleToBundle, modulePath)
  ELSE IdentityPreferredPath(modulePath)

StaticAssociatedModulePaths(table, modulePath) ==
  LET preferred == StaticPreferredPath(table, modulePath) IN
  IF ObjHas(table.bundleToModules, preferred)
  THEN ObjGet(table.bundleToModules, preferred)
  ELSE IdentityAssociatedModulePaths(preferred)

\* The three alternatives of /\.js$|(?:^|\/)index\.js$|.\/+$/ tried at
\* position i of s (each of them is anchored at the end of s).
DotJs == <<".", "j", "s">>
IndexJs == <<"i", "n", "d", "e", "x", ".", "j", "s">>

SuffixMatchesAt(s, i) ==
  LET rest == SubSeq(s, i, Len(s)) IN
  \/ rest = DotJs
  \/ (i = 1 /\ rest = IndexJs)
  \/ rest = <<"/">> \o IndexJs
  \/ (Len(rest) >= 2 /\ \A k \in 2..Len(rest) : rest[k] = "/")

\* String.prototype.replace(regexp, ''): the leftmost match is removed.
StripModuleSuffix(s) ==
  LET hits == {i \in 1..Len(s) : SuffixMatchesAt(s, i)} IN
  IF hits = {} THEN s
  ELSE SubSeq(s, 1, (CHOOSE i \in hits : \A j \in hits : i <= j) - 1)

SimpleAssociatedModulePaths(modulePath) ==
  LET stem == StripModuleSuffix(modulePath) IN
  <<Module(stem), Module(stem \o DotJs), Module(stem \o <<"/">> \o IndexJs)>>

SimplePreferredPath(modulePath) == SimpleAssociatedModulePaths(modulePath)[1].name

\* The associator installed with setAssociator (or none), dispatched on
\* its class.
preferredPath(associator, modulePath) ==
  CASE associator.kind = "static" -> StaticPreferredPath(associator.table, modulePath)
    [] associator.kind = "simple" -> SimplePreferredPath(modulePath)
    [] OTHER -> IdentityPreferredPath(modulePath)

associatedModulePaths(associator, modulePath) ==
  CASE associator.kind = "static" -> StaticAssociatedModulePaths(associator.table, modulePath)
    [] associator.kind = "simple" -> SimpleAssociatedModulePaths(modulePath)
    [] OTHER -> IdentityAssociatedModulePaths(modulePath)

(***************************************************************************)
(* HTTP headers.  A header set is a function from header names to values.  *)
(* A date header whose text parses is [kind |-> "date", ms |-> t], t being *)
(* what Date.parse returns for it, in ticks; any other text is             *)
(* [kind |-> "text", ...].                                                 *)
(***************************************************************************)
NaN == -1                      \* Date.parse / parseInt of what does not parse
TicksPerSecond == 2            \* resolution of Date.parse, per second

HEADER_WHITELIST == {"date", "last-modified", "expires", "cache-control", "content-type"}

DateValue(t) == [kind |-> "date", ms |-> t]
TextValue(x) == [kind |-> "text", text |-> x]
MaxAgeValue(lead, n) == [kind |-> "cache-control", leading |-> lead, maxAge |-> n]

NoHeaders == [k \in {} |-> TextValue("")]

selectProperties(o, keys) == [k \in (DOMAIN o \cap keys) |-> o[k]]
SetHeader(h, k, v) == [x \in DOMAIN h \cup {k} |-> IF x = k THEN v ELSE h[x]]
DeleteHeader(h, k) == [x \in DOMAIN h \ {k} |-> h[x]]

\* Date.parse(h[k]): NaN when the header is absent or is not a date.
DateParse(h, k) == IF k \in DOMAIN h /\ h[k].kind = "date" THEN h[k].ms ELSE NaN

\* (new Date(value)).toUTCString(): the text has a resolution of a second.
ToUTCString(t) == DateValue(t - (t % TicksPerSecond))

\* parseInt((h['cache-control'] || '').match(/(?:max-age=(\d+))?/)[1], 10):
\* the optional group only matches at the very start of the text.
ParseMaxAge(h) ==
  IF "cache-control" \in DOMAIN h /\ h["cache-control"].kind = "cache-control"
     /\ h["cache-control"].leading = ""
  THEN h["cache-control"].maxAge ELSE NaN

SetMax(S) == CHOOSE x \in S : \A y \in S : y <= x
SetMin(S) == CHOOSE x \in S : \A y \in S : x <= y

\* A merge that keeps the first member's headers.
mergeHeadersFirstMember(headersList) ==
  IF Len(headersList) = 0 THEN NoHeaders
  ELSE selectProperties(headersList[1], {"date", "last-modified", "expires", "cache-control"})

mergeHeaders(headersList) ==
  LET n == Len(headersList)
      dates(k) == {DateParse(headersList[i], k) : i \in 1..n}
      ages == {ParseMaxAge(headersList[i]) : i \in 1..n}
      h0 == NoHeaders
      h1 == IF NaN \notin dates("date")
            THEN SetHeader(h0, "date", ToUTCString(SetMax(dates("date")))) ELSE h0
      h2 == IF NaN \notin dates("last-modified")
            THEN SetHeader(h1, "last-modified", ToUTCString(SetMax(dates("last-modified"))))
            ELSE h1
      h3 == IF NaN \notin dates("expires")
            THEN SetHeader(h2, "expires", ToUTCString(SetMin(dates("expires")))) ELSE h2
      h4 == IF NaN \notin ages
            THEN SetHeader(h3, "cache-control", MaxAgeValue("", SetMin(ages))) ELSE h3
  IN IF n = 0
     THEN \* Math.max() and Math.min() of nothing are -Infinity and Infinity.
          [k \in {"date", "last-modified", "expires", "cache-control"} |->
             IF k = "cache-control" THEN TextValue("max-age=Infinity")
             ELSE TextValue("Invalid Date")]
     ELSE h4

\* notModified, as a boolean (the truthiness of what the code returns).
notModified(requestHeaders, responseHeaders) ==
  LET lastModified == DateParse(responseHeaders, "last-modified")
      modifiedSince == DateParse(requestHeaders, "if-modified-since")
  IN \/ /\ "etag" \in DOMAIN requestHeaders
        /\ requestHeaders["etag"] # TextValue("")
        /\ "etag" \in DOMAIN responseHeaders
        /\ requestHeaders["etag"] = responseHeaders["etag"]
     \/ /\ lastModified # NaN /\ lastModified # 0
        /\ modifiedSince # NaN
        /\ lastModified <= modifiedSince

Undefined == 0                 \* undefined where a status is expected

\* A reduce that keeps the first status when the statuses disagree.
ReduceStatusFirst(statuss) == statuss[1]

\* statuss.reduce((m, s) => m && m === s ? m : undefined), for a non-empty
\* array.
ReduceStatus(statuss) ==
  LET F[i \in 1..Len(statuss)] ==
        IF i = 1 THEN statuss[1]
        ELSE IF F[i - 1] # Undefined /\ F[i - 1] = statuss[i] THEN F[i - 1] ELSE Undefined
  IN F[Len(statuss)]

(***************************************************************************)
(* Bundle packaging.                                                       *)
(***************************************************************************)
Letters ==
  {"a","b","c","d","e","f","g","h","i","j","k","l","m","n","o","p","q","r","s","t",
   "u","v","w","x","y","z","A","B","C","D","E","F","G","H","I","J","K","L","M","N",
   "O","P","Q","R","S","T","U","V","W","X","Y","Z"}
IsAlphanumeric(c) == c \in Letters \/ IsDigit(c)

\* '\\u' followed by the four hex digits of the character's code.
UnicodeEscape(c) ==
  CASE c = "/" -> "\\u002f" [] c = "." -> "\\u002e" [] c = "-" -> "\\u002d"
    [] c = "_" -> "\\u005f" [] c = "<" -> "\\u003c" [] c = ">" -> "\\u003e"
    [] c = "~" -> "\\u007e" [] c = " " -> "\\u0020" [] c = "?" -> "\\u003f"
    [] c = "=" -> "\\u003d" [] c = "&" -> "\\u0026" [] c = ":" -> "\\u003a"
    [] OTHER -> "\\u" \o c

escapeNonAlphanumerics(text, exceptions) ==
  [i \in 1..Len(text) |->
     IF IsAlphanumeric(text[i]) \/ text[i] \in exceptions THEN text[i]
     ELSE UnicodeEscape(text[i])]

PathKeyExceptions == {".", "/", "-", "_"}

NullBody == [kind |-> "null"]

\* packagedDefine: the payload `callback({ "key": wrapper-or-null, ... });`
\* as the callback and the list of its entries, in the order written.
packagedDefine(JSONPCallback, moduleMap) ==
  [kind |-> "bundle",
   callback |-> JSONPCallback,
   entries |-> [i \in 1..Len(moduleMap) |->
      LET pathEsc == escapeNonAlphanumerics(moduleMap[i][1], PathKeyExceptions)
          body == moduleMap[i][2]
      IN IF body = NullBody
         THEN [key |-> pathEsc, null |-> TRUE, name |-> <<>>, body |-> NullBody]
         ELSE [key |-> pathEsc, null |-> FALSE, name |-> pathEsc, body |-> body]]]

(***************************************************************************)
(* Request routing helpers.                                                *)
(***************************************************************************)
\* path.posix.normalize.
normalizePath(path) ==
  IF path = <<>> THEN <<".">>
  ELSE
    LET isAbsolute == path[1] = "/"
        trailingSeparator == path[Len(path)] = "/"
        segs == Split(path, "/")
        F[i \in 0..Len(segs)] ==
          IF i = 0 THEN <<>>
          ELSE LET acc == F[i - 1]
                   sg == segs[i]
               IN IF sg = <<>> \/ sg = <<".">> THEN acc
                  ELSE IF sg = <<".", ".">>
                  THEN IF Len(acc) > 0 /\ acc[Len(acc)] # <<".", ".">> THEN Pop(acc)
                       ELSE IF isAbsolute THEN acc ELSE Append(acc, sg)
                  ELSE Append(acc, sg)
        joined == Join(F[Len(segs)], "/")
        body == IF joined = <<>> /\ ~isAbsolute THEN <<".">> ELSE joined
        tail == IF body # <<>> /\ trailingSeparator THEN body \o <<"/">> ELSE body
    IN IF isAbsolute THEN <<"/">> \o tail ELSE tail

\* Index of the first occurrence of character c in s, or 0.
IndexOfChar(s, c) ==
  IF \E i \in 1..Len(s) : s[i] = c
  THEN CHOOSE i \in 1..Len(s) : s[i] = c /\ \A j \in 1..(i - 1) : s[j] # c
  ELSE 0

\* The characters of a query that the URL parser percent-encodes when it
\* serializes url.search (the query percent-encode set, without the space
\* and the controls, which a request target cannot carry), and their codes.
QueryEncodeSet == {"\"", "<", ">"}
PercentEncoded(c) ==
  CASE c = "\"" -> <<"%", "2", "2">>
    [] c = "<" -> <<"%", "3", "C">>
    [] c = ">" -> <<"%", "3", "E">>
    [] OTHER -> <<c>>

\* url.search of new URL(request.url, ...): empty when the query is empty,
\* else "?" and the query with the characters of the encode set escaped.
URLSearch(query) ==
  IF Len(query) <= 1 THEN <<>>
  ELSE LET F[i \in 0..Len(query)] ==
             IF i = 0 THEN <<>> ELSE F[i - 1] \o PercentEncoded(query[i])
       IN F[Len(query)]

\* Percent-decoding, as url.searchParams applies it to names and values.
PercentDecode(s) ==
  LET Code(i) == IF i + 2 <= Len(s) /\ s[i] = "%" THEN SubSeq(s, i, i + 2) ELSE <<>>
      Escaped(i) == \E c \in QueryEncodeSet : Code(i) = PercentEncoded(c)
      F[i \in 1..(Len(s) + 1)] ==
        IF i > Len(s) THEN <<>>
        ELSE IF Escaped(i)
             THEN <<CHOOSE c \in QueryEncodeSet : Code(i) = PercentEncoded(c)>>
                  \o (IF i + 3 <= Len(s) + 1 THEN F[i + 3] ELSE <<>>)
             ELSE <<s[i]>> \o F[i + 1]
  IN F[1]

\* url.searchParams: the [name, value] pairs of url.search, in order.
SearchParams(search) ==
  LET query == IF search # <<>> /\ search[1] = "?" THEN Slice(search, 1) ELSE search
      parts == SelectSeq(Split(query, "&"), LAMBDA x : x # <<>>)
  IN [i \in 1..Len(parts) |->
        LET eq == IndexOfChar(parts[i], "=") IN
        IF eq = 0 THEN <<PercentDecode(parts[i]), <<>>>>
        ELSE <<PercentDecode(SubSeq(parts[i], 1, eq - 1)),
               PercentDecode(Slice(parts[i], eq))>>]

SearchParamsHas(search, name) == MapHas(SearchParams(search), name)
SearchParamsGet(search, name) == MapGet(SearchParams(search), name)

CallbackName == <<"c", "a", "l", "l", "b", "a", "c", "k">>

\* JSONP_CALLBACK_EXPRESSION = /^[a-zA-Z0-9$:._'"\\()[\]{}]+$/
CallbackSymbols == {"$", ":", ".", "_", "'", "\"", "\\", "(", ")", "[", "]", "{", "}"}
\* The expression without its anchors: some character is in the class.
MatchesCallbackExpressionUnanchored(cb) ==
  \E i \in 1..Len(cb) : IsAlphanumeric(cb[i]) \/ cb[i] \in CallbackSymbols

MatchesCallbackExpression(cb) ==
  /\ Len(cb) > 0
  /\ \A i \in 1..Len(cb) : IsAlphanumeric(cb[i]) \/ cb[i] \in CallbackSymbols

(***************************************************************************)
(* Server: construction.                                                   *)
(***************************************************************************)
trailingSlash(path) == IF path # <<>> /\ ~EndsWith(path, <<"/">>) THEN path \o <<"/">> ELSE path
leadingSlash(path) == IF path # <<>> /\ ~StartsWith(path, <<"/">>) THEN <<"/">> \o path ELSE path

NoAssociator == [kind |-> "unset",
                 table |-> [bundleToModules |-> <<>>, moduleToBundle |-> <<>>, error |-> "none"]]

\* A JavaScript value that is neither undefined nor the empty string.
Truthy(x) == x # Null /\ x # <<>>

\* A URI that validateURI rejects; every other URI given is an http URI.
InvalidURI == <<"!">>

\* this._rootPath and this._libraryPath: set only when the URI of the
\* namespace is given; the path defaults to 'root' / 'library'.
RootPathOf(options) ==
  IF ~Truthy(options.rootURI) THEN Null
  ELSE leadingSlash(trailingSlash(
         IF options.rootPath = Null THEN <<"r", "o", "o", "t">> ELSE options.rootPath))
LibraryPathOf(options) ==
  IF ~Truthy(options.libraryURI) THEN Null
  ELSE leadingSlash(trailingSlash(
         IF options.libraryPath = Null THEN <<"l", "i", "b", "r", "a", "r", "y">>
         ELSE options.libraryPath))

\* this._rootPath && this._libraryPath &&
\*   (this._rootPath.indexOf(this._libraryPath) === 0 ||
\*    this._libraryPath.indexOf(this._rootPath) === 0)
PathsAmbiguous(rootPath, libraryPath) ==
  /\ Truthy(rootPath) /\ Truthy(libraryPath)
  /\ (StartsWith(rootPath, libraryPath) \/ StartsWith(libraryPath, rootPath))

\* What new Server(options) throws: "none" when it returns an instance.
ServerNewError(options) ==
  IF Truthy(options.rootURI) /\ options.rootURI = InvalidURI THEN "invalid uri"
  ELSE IF Truthy(options.libraryURI) /\ options.libraryURI = InvalidURI THEN "invalid uri"
  ELSE IF PathsAmbiguous(RootPathOf(options), LibraryPathOf(options)) THEN "ambiguous paths"
  ELSE "none"

\* new Server(options) followed by setAssociator(associator).  An option
\* that is not given is Null.
ServerNew(options, associator) ==
  [rootURI |-> IF Truthy(options.rootURI) THEN trailingSlash(options.rootURI) ELSE Null,
   rootPath |-> RootPathOf(options),
   libraryURI |-> IF Truthy(options.libraryURI) THEN trailingSlash(options.libraryURI)
                  ELSE Null,
   libraryPath |-> LibraryPathOf(options),
   baseURI |-> IF options.baseURI = Null \/ options.baseURI = <<>> THEN Null
               ELSE trailingSlash(options.baseURI),
   associator |-> associator]

resourceURIForModulePath(sv, path) ==
  IF StartsWith(path, <<"/">>) THEN sv.rootURI \o Slice(path, 1) ELSE sv.libraryURI \o path

(***************************************************************************)
(* Server.handle.                                                          *)
(***************************************************************************)
NoResponse == [heads |-> <<>>, bodies |-> <<>>, ended |-> 0]

PlainText == [k \in {"content-type"} |-> TextValue("text/plain; charset=utf-8")]
JavaScriptType == TextValue("application/javascript; charset=utf-8")

Written(status, headers, body) ==
  [heads |-> <<[status |-> status, headers |-> headers]>>, bodies |-> <<body>>, ended |-> 1]
WrittenNoBody(status, headers) ==
  [heads |-> <<[status |-> status, headers |-> headers]>>, bodies |-> <<>>, ended |-> 1]

EmptyFrame ==
  [path |-> <<>>, modulePath |-> Null, requestHeaders |-> NoHeaders,
   JSONPCallback |-> <<>>, preferredPath |-> Null, modulePaths |-> <<>>,
   resourceURIs |-> <<>>, headStatuss |-> <<>>, headHeaders |-> NoHeaders,
   getStatuss |-> <<>>, getHeaders |-> NoHeaders,
   directStatus |-> Undefined, directHeaders |-> NoHeaders]

\* What one step of the async body leaves behind.
Outcome(p, f, fs, r, n) == [pc |-> p, frame |-> f, fetches |-> fs, response |-> r, nextCalls |-> n]

\* .catch((err) => next(err || new Error(err))): the error goes to next;
\* without a next the catch handler itself throws.
Caught(req, f, fs) ==
  IF req.hasNext THEN Outcome("rejected", f, fs, NoResponse, <<"error">>)
  ELSE Outcome("unhandledRejection", f, fs, NoResponse, <<>>)

\* A resolution that takes a path outside the namespaces for a module path.
ModulePathOfAnyPath(sv, path) ==
  IF StartsWith(path, sv.rootPath) THEN <<"/">> \o Slice(path, Len(sv.rootPath))
  ELSE path

\* The module path of a normalized request path (Null when neither
\* namespace prefix matches).
ModulePathOf(sv, path) ==
  IF StartsWith(path, sv.rootPath) THEN <<"/">> \o Slice(path, Len(sv.rootPath))
  ELSE IF Truthy(sv.libraryURI) /\ StartsWith(path, sv.libraryPath)
  THEN Slice(path, Len(sv.libraryPath))
  ELSE Null

\* Location of the redirect to preferredPath, without the query string.
RedirectLocation(sv, path, preferred) ==
  LET location == IF preferred # <<>> /\ preferred[1] = "/"
                  THEN sv.rootPath \o Slice(preferred, 1)
                  ELSE sv.libraryPath \o preferred
  IN IF sv.baseURI # Null THEN sv.baseURI \o location
     ELSE relativePath(path, location)

\* A Location that carries over the callback parameter alone.
LocationHeaderCallbackOnly(sv, path, preferred, search) ==
  RedirectLocation(sv, path, preferred)
    \o <<"?">> \o CallbackName \o <<"=">> \o SearchParamsGet(search, CallbackName)

\* The Location header of the 307 response.
LocationHeader(sv, path, preferred, search) == RedirectLocation(sv, path, preferred) \o search

\* if (preferredPath !== modulePath), with the test inverted.
RedirectNeededInverted(preferred, modulePath) == preferred = modulePath

\* if (preferredPath !== modulePath)
RedirectNeeded(preferred, modulePath) == preferred # modulePath

\* The bundle branch of handle, once the callback parameter passed its
\* checks: redirect, or fan out HEAD requests.
HandleBundle(sv, req, f0) ==
  LET modulePath == f0.modulePath
      preferred == IF sv.associator.kind # "unset"
                   THEN preferredPath(sv.associator, modulePath) ELSE modulePath
      f1 == [f0 EXCEPT !.preferredPath = preferred]
  IN IF RedirectNeeded(preferred, modulePath)
     THEN Outcome("done", f1, <<>>,
            Written(307,
              [k \in {"Content-Type", "Location"} |->
                 IF k = "Location"
                 THEN [kind |-> "location",
                       text |-> LocationHeader(sv, f0.path, preferred, URLSearch(req.url.query))]
                 ELSE TextValue("text/plain; charset=utf-8")],
              TextValue("307: Resource moved temporarily.")),
            <<>>)
     ELSE LET modulePaths == IF sv.associator.kind # "unset"
                             THEN associatedModulePaths(sv.associator, modulePath)
                             ELSE <<Module(modulePath)>>
              f2 == [f1 EXCEPT !.modulePaths = modulePaths]
          IN IF \E i \in 1..Len(modulePaths) : IsAlias(modulePaths[i])
             THEN \* m.startsWith is not a function
                  Caught(req, f2, <<>>)
             ELSE LET resourceURIs == [i \in 1..Len(modulePaths) |->
                                         resourceURIForModulePath(sv, modulePaths[i].name)]
                  IN Outcome("awaitHead", [f2 EXCEPT !.resourceURIs = resourceURIs],
                             <<[via |-> "requestURIs", method |-> "HEAD",
                                uris |-> resourceURIs, headers |-> f0.requestHeaders]>>,
                             NoResponse, <<>>)

\* A method test that lets every method through.
MethodAllowedAny(method) == TRUE

\* request.method !== 'HEAD' && request.method !== 'GET', negated
MethodAllowed(method) == method = "HEAD" \/ method = "GET"

\* handle(request, response, next) up to its first await (or to its end).
HandleStart(sv, req) ==
  IF req.url.malformed
  THEN Outcome("done", EmptyFrame, <<>>,
               Written(422, PlainText, TextValue("422: Malformed URL")), <<>>)
  ELSE
    LET path == normalizePath(req.url.pathname)
        modulePath == ModulePathOf(sv, path)
        requestHeaders ==
          LET defaults == [k \in {"user-agent", "accept"} |->
                             IF k = "accept" THEN TextValue("*/*") ELSE TextValue("yajsml")]
              picked == selectProperties(req.headers, {"if-modified-since", "cache-control"})
          IN [k \in DOMAIN defaults \cup DOMAIN picked |->
                IF k \in DOMAIN picked THEN picked[k] ELSE defaults[k]]
        f0 == [EmptyFrame EXCEPT !.path = path, !.modulePath = modulePath,
                                 !.requestHeaders = requestHeaders]
    IN IF modulePath = Null \/ modulePath = <<>>
       THEN IF req.hasNext THEN Outcome("done", f0, <<>>, NoResponse, <<"next">>)
            ELSE Outcome("done", f0, <<>>,
                   Written(404, PlainText,
                           TextValue("404: The requested resource could not be found.")),
                   <<>>)
       ELSE IF ~MethodAllowed(req.method)
       THEN Outcome("done", f0, <<>>,
              Written(405,
                [k \in {"allow", "content-type"} |->
                   IF k = "allow" THEN TextValue("HEAD, GET")
                   ELSE TextValue("text/plain; charset=utf-8")],
                TextValue("405: Only the HEAD or GET methods are allowed.")),
              <<>>)
       ELSE IF ~SearchParamsHas(URLSearch(req.url.query), CallbackName)
       THEN Outcome("awaitDirect", f0,
              <<[via |-> "requestURI", method |-> "GET",
                 uris |-> <<resourceURIForModulePath(sv, modulePath)>>,
                 headers |-> requestHeaders]>>,
              NoResponse, <<>>)
       ELSE LET JSONPCallback == SearchParamsGet(URLSearch(req.url.query), CallbackName)
                f1 == [f0 EXCEPT !.JSONPCallback = JSONPCallback]
            IN IF Len(JSONPCallback) = 0
               THEN Outcome("done", f1, <<>>,
                      Written(400, PlainText,
                              TextValue("400: The 'callback' parameter must be non-empty.")),
                      <<>>)
               ELSE IF ~MatchesCallbackExpression(JSONPCallback)
               THEN Outcome("done", f1, <<>>,
                      Written(400, PlainText,
                              TextValue("400: The 'callback' parameter must match /^[a-zA-Z0-9$:._'\"\\\\()[\\]{}]+$/.")),
                      <<>>)
               ELSE HandleBundle(sv, req, f1)

\* What the backend sent for one resource.
Content(uri, status) == [kind |-> "content", uri |-> uri, status |-> status]

\* A body written whatever the request method is.
DirectWritesBodyAnyMethod(method, hasContent) == hasContent

\* if (request.method === 'GET' && content) response.write(content)
DirectWritesBody(method, hasContent) == method = "GET" /\ hasContent

\* A direct proxy that passes every backend status through.
DirectStatusPassThrough(status, isNotModified) == status

\* The status of the direct proxy's response: 200 and 404 are kept, else
\* if (notModified(requestHeaders, headers)) status = 304
DirectStatus(status, isNotModified) ==
  IF status = 200 \/ status = 404 THEN status
  ELSE IF isNotModified THEN 304 ELSE status

\* The direct proxy, from the completion of its GET to the end.
HandleDirectReply(req, f, fs, reply) ==
  LET headers0 == selectProperties(reply.headers, HEADER_WHITELIST)
      uri == fs[Len(fs)].uris[1]
      status == DirectStatus(reply.status, notModified(f.requestHeaders, headers0))
      headers == IF reply.status = 200 THEN SetHeader(headers0, "content-type", JavaScriptType)
                 ELSE IF reply.status = 404
                 THEN SetHeader(headers0, "content-type", TextValue("text/plain; charset=utf-8"))
                 ELSE DeleteHeader(headers0, "content-type")
      hasContent == reply.status = 200 \/ reply.status = 404
      content == IF reply.status = 200 THEN Content(uri, 200)
                 ELSE TextValue("404: The requested resource could not be found.")
  IN Outcome("done",
             [f EXCEPT !.directStatus = reply.status, !.directHeaders = reply.headers], fs,
             IF DirectWritesBody(req.method, hasContent) THEN Written(status, headers, content)
             ELSE WrittenNoBody(status, headers),
             <<>>)

\* The merged status passed through when the response is not a 304.
BundleStatusPassThrough(status, isNotModified) ==
  IF status = 304 \/ isNotModified THEN 304 ELSE status

\* status = status === 304 || notModified(requestHeaders, headers) ? 304 : 200
BundleStatus(status, isNotModified) == IF status = 304 \/ isNotModified THEN 304 ELSE 200

\* An end of the bundle branch that forces no header.
EmitBundleUnforced(req, f, fs, status, headers0, hasContent, content) ==
  LET headers == selectProperties(headers0, HEADER_WHITELIST)
      final == BundleStatus(status, notModified(f.requestHeaders, headers))
  IN Outcome("done", f, fs,
             IF hasContent THEN Written(final, headers, content)
             ELSE WrittenNoBody(final, headers),
             <<>>)

\* The end of the bundle branch: whitelist, forced headers, 304 or 200.
EmitBundle(req, f, fs, status, headers0, hasContent, content) ==
  LET headers == SetHeader(SetHeader(selectProperties(headers0, HEADER_WHITELIST),
                                     "content-type", JavaScriptType),
                           "x-content-type-options", TextValue("nosniff"))
      final == BundleStatus(status, notModified(f.requestHeaders, headers))
  IN Outcome("done", f, fs,
             IF hasContent THEN Written(final, headers, content)
             ELSE WrittenNoBody(final, headers),
             <<>>)

\* The HEAD phase taken as conclusive on a merged status of 304 alone.
HeadPhaseNotModifiedStatusOnly(status, requestHeaders, headers) == status = 304

\* if (status === 304 || notModified(requestHeaders, headers))
HeadPhaseNotModified(status, requestHeaders, headers) ==
  status = 304 \/ notModified(requestHeaders, headers)

\* The bundle branch from the completion of the HEAD fan-out to the next
\* await (or to the end).
HandleHeadReply(req, f, fs, replies) ==
  IF Len(replies) = 0
  THEN \* reduce of an empty array with no initial value throws
       Caught(req, f, fs)
  ELSE
    LET statuss == [i \in 1..Len(replies) |-> replies[i].status]
        status == ReduceStatus(statuss)
        headers == mergeHeaders([i \in 1..Len(replies) |-> replies[i].headers])
        f1 == [f EXCEPT !.headStatuss = statuss, !.headHeaders = headers]
    IN IF HeadPhaseNotModified(status, f.requestHeaders, headers)
       THEN EmitBundle(req, f1, fs, 304, headers, FALSE, NullBody)
       ELSE IF req.method = "HEAD" /\ status # 405
       THEN EmitBundle(req, f1, fs, status, headers, FALSE, NullBody)
       ELSE Outcome("awaitGet", f1,
              Append(fs, [via |-> "requestURIs", method |-> "GET", uris |-> f.resourceURIs,
                          headers |-> selectProperties(f.requestHeaders,
                                        {"user-agent", "accept", "cache-control"})]),
              NoResponse, <<>>)

\* A GET phase that fans out once more before it answers.
HandleGetReplyRetrying(req, f, fs, replies) ==
  IF Len(fs) < 3
  THEN Outcome("awaitGet", f, Append(fs, fs[Len(fs)]), NoResponse, <<>>)
  ELSE EmitBundle(req, f, fs, 200, NoHeaders, FALSE, NullBody)

\* The bundle branch from the completion of the GET fan-out to the end.
HandleGetReply(req, f, fs, replies) ==
  IF Len(replies) = 0 THEN Caught(req, f, fs)
  ELSE
    LET statuss == [i \in 1..Len(replies) |-> replies[i].status]
        status == ReduceStatus(statuss)
        headers == mergeHeaders([i \in 1..Len(replies) |-> replies[i].headers])
        f1 == [f EXCEPT !.getStatuss = statuss, !.getHeaders = headers]
    IN IF req.method = "HEAD"
       THEN EmitBundle(req, f1, fs, status, headers, FALSE, NullBody)
       ELSE LET contents == [i \in 1..Len(replies) |->
                                Content(f.resourceURIs[i], replies[i].status)]
                moduleMap == ObjFromEntries(
                   [i \in 1..Len(f.modulePaths) |->
                      <<f.modulePaths[i].name,
                        IF statuss[i] = 200 THEN contents[i] ELSE NullBody>>])
            IN EmitBundle(req, f1, fs, status, headers, TRUE,
                          packagedDefine(f.JSONPCallback, moduleMap))

(***************************************************************************)
(* The server under requests: configurations, requests, backend replies.   *)
(***************************************************************************)
\* Whole seconds, in ticks.
Seconds(k) == k * TicksPerSecond

Str_l == <<"l">>
Str_r == <<"r">>

\* The association table of the static configurations.
StaticMapping ==
  << <<<<"a">>, <<Module(<<"a">>), Module(<<"b">>)>>>>,
     <<<<"/", "c">>, <<Module(<<"/", "c">>), Module(<<"d">>)>>>>,
     <<<<"x">>, <<Module(<<"x">>), Module(<<"1">>)>>>>,
     <<<<"e">>, <<>>>>,
     <<<<"k">>, <<Module(<<"k">>), Alias(<<"m">>, <<"k">>)>>>> >>

ServerOptions ==
  {[rootURI |-> <<"R">>, rootPath |-> Str_r, libraryURI |-> <<"L">>, libraryPath |-> Str_l,
    baseURI |-> b] : b \in {Null, <<"B">>}}

Servers ==
  {ServerNew(o, a) :
     o \in {x \in ServerOptions : ServerNewError(x) = "none"},
     a \in {NoAssociator,
            [kind |-> "identity", table |-> NoAssociator.table],
            [kind |-> "static", table |-> associationsForSimpleMapping(StaticMapping)]}}
  \cup {ServerNew(o, [kind |-> "simple", table |-> NoAssociator.table]) :
          o \in {x \in ServerOptions : x.baseURI = Null}}

Pathnames ==
  { <<"/", "l", "/", "a">>, <<"/", "l", "/", "b">>, <<"/", "l", "/", "/", "b">>,
    <<"/", "l", "/">>, <<"/", "x">>, <<"/", "l", "/", "d">>, <<"/", "r", "/", "c">>,
    <<"/", "l", "/", "e">>, <<"/", "l", "/", "k">>, <<"/", "l", "/", "m">>,
    <<"/", "l", "/", "x">>, <<"/", "l", "/", "a", ".", "j", "s">> }

SimplePathnames ==
  { <<"/", "l", "/", "a">>, <<"/", "l", "/", "a", ".", "j", "s">>,
    <<"/", "r", "/", "i", "n", "d", "e", "x", ".", "j", "s">> }

CallbackX == <<"?", "c", "a", "l", "l", "b", "a", "c", "k", "=", "x">>
CallbackQuote == <<"?", "c", "a", "l", "l", "b", "a", "c", "k", "=", "\"">>
Queries ==
  { <<>>,
    CallbackQuote \o <<"&", "y", "=", "1">>,
    CallbackX,
    CallbackX \o <<"&", "y", "=", "1">>,
    <<"?", "c", "a", "l", "l", "b", "a", "c", "k", "=">>,
    <<"?", "c", "a", "l", "l", "b", "a", "c", "k", "=", "<">>,
    CallbackX \o <<"<">>,
    <<"?", "y", "=", "1">> }

RequestHeaderSets ==
  { NoHeaders,
    [k \in {"if-modified-since", "etag", "host"} |->
       IF k = "if-modified-since" THEN DateValue(Seconds(1))
       ELSE IF k = "etag" THEN TextValue("v1") ELSE TextValue("h")] }

Methods == {"GET", "HEAD", "POST"}

Requests(sv) ==
  {[method |-> "GET", url |-> [malformed |-> TRUE, pathname |-> <<>>, query |-> <<>>],
    headers |-> NoHeaders, hasNext |-> n] : n \in BOOLEAN}
  \cup [method : Methods,
        url : [malformed : {FALSE},
               pathname : IF sv.associator.kind = "simple" THEN SimplePathnames ELSE Pathnames,
               query : Queries],
        headers : RequestHeaderSets,
        hasNext : BOOLEAN]

BackendHeaders(lastModified) ==
  [k \in {"last-modified", "date", "content-type", "etag", "server"} |->
     CASE k = "last-modified" -> DateValue(lastModified)
       [] k = "date" -> DateValue(Seconds(3))
       [] k = "content-type" -> TextValue("text/javascript")
       [] k = "etag" -> TextValue("v1")
       [] OTHER -> TextValue("backend")]

ErrorHeaders == [k \in {"content-type"} |-> TextValue("text/html")]

BackendReplies ==
  { [status |-> 200, headers |-> BackendHeaders(Seconds(1))],
    [status |-> 200, headers |-> BackendHeaders(Seconds(2))],
    [status |-> 200, headers |-> ErrorHeaders],
    [status |-> 304, headers |-> BackendHeaders(Seconds(1))],
    [status |-> 404, headers |-> ErrorHeaders],
    [status |-> 405, headers |-> BackendHeaders(Seconds(1))] }

Pending == [pending |-> TRUE]
NoServer == [associator |-> NoAssociator]
NoRequest == [method |-> "none"]

HandlerIdle ==
  /\ server = NoServer /\ request = NoRequest /\ pc = "idle" /\ frame = EmptyFrame
  /\ fetches = <<>> /\ response = NoResponse /\ nextCalls = <<>>

Init ==
  /\ mode = "handle"
  /\ arg = <<>> /\ out = Pending
  /\ server \in Servers
  /\ request = NoRequest
  /\ pc = "idle"
  /\ frame = EmptyFrame
  /\ fetches = <<>>
  /\ response = NoResponse
  /\ nextCalls = <<>>

Become(o) ==
  /\ pc' = o.pc
  /\ frame' = o.frame
  /\ fetches' = o.fetches
  /\ response' = o.response
  /\ nextCalls' = o.nextCalls

\* A request arrives: handle runs up to its first await.
Handle ==
  /\ mode = "handle" /\ pc = "idle"
  /\ \E req \in Requests(server) :
        /\ request' = req
        /\ Become(HandleStart(server, req))
  /\ UNCHANGED <<mode, arg, out, server>>

\* requestURI calls back with the backend's reply to the direct GET.
DirectReply ==
  /\ mode = "handle" /\ pc = "awaitDirect"
  /\ \E reply \in BackendReplies : Become(HandleDirectReply(request, frame, fetches, reply))
  /\ UNCHANGED <<mode, arg, out, server, request>>

\* requestURIs calls back with one reply per resource URI of the HEAD fan-out.
HeadReply ==
  /\ mode = "handle" /\ pc = "awaitHead"
  /\ \E replies \in [1..Len(frame.resourceURIs) -> BackendReplies] :
        Become(HandleHeadReply(request, frame, fetches, replies))
  /\ UNCHANGED <<mode, arg, out, server, request>>

\* requestURIs calls back with one reply per resource URI of the GET fan-out.
GetReply ==
  /\ mode = "handle" /\ pc = "awaitGet"
  /\ \E replies \in [1..Len(frame.resourceURIs) -> BackendReplies] :
        Become(HandleGetReply(request, frame, fetches, replies))
  /\ UNCHANGED <<mode, arg, out, server, request>>

\* The fetch collaborator throws instead of calling back: the promise that
\* wraps the call rejects, the async body ends at its await and the error
\* reaches the catch handler.
DirectFails ==
  /\ mode = "handle" /\ pc = "awaitDirect"
  /\ Become(Caught(request, frame, fetches))
  /\ UNCHANGED <<mode, arg, out, server, request>>

HeadFails ==
  /\ mode = "handle" /\ pc = "awaitHead"
  /\ Become(Caught(request, frame, fetches))
  /\ UNCHANGED <<mode, arg, out, server, request>>

GetFails ==
  /\ mode = "handle" /\ pc = "awaitGet"
  /\ Become(Caught(request, frame, fetches))
  /\ UNCHANGED <<mode, arg, out, server, request>>

Next ==
  \/ Handle \/ DirectReply \/ HeadReply \/ GetReply
  \/ DirectFails \/ HeadFails \/ GetFails

Spec == Init /\ [][Next]_vars

(***************************************************************************)
(* Specification of relativePath as a pure function.                       *)
(***************************************************************************)
InitRel ==
  /\ mode = "relativePath"
  /\ arg \in {a \in [from : NormalizedPaths, to : NormalizedPaths] :
                 IsAbsolute(a.from) <=> IsAbsolute(a.to)}
  /\ out = Pending
  /\ HandlerIdle

ApplyRelativePath ==
  /\ mode = "relativePath" /\ out.pending
  /\ out' = [pending |-> FALSE, value |-> relativePath(arg.from, arg.to)]
  /\ UNCHANGED <<mode, arg, server, request, pc, frame, fetches, response, nextCalls>>

NextRel == ApplyRelativePath

SpecRel == InitRel /\ [][NextRel]_vars

(***************************************************************************)
(* Specification of the associators as pure functions.                     *)
(***************************************************************************)
SeqsUpTo(S, n) == UNION {[1..k -> S] : k \in 0..n}

Flatten(pieces) ==
  LET F[i \in 0..Len(pieces)] == IF i = 0 THEN <<>> ELSE F[i - 1] \o pieces[i]
  IN F[Len(pieces)]

\* Module paths for SimpleAssociator: concatenations of a few pieces.
PathPieces == {<<"a">>, <<"/">>, DotJs, <<"i", "n", "d", "e", "x">>}
PiecePaths == {Flatten(ps) : ps \in SeqsUpTo(PathPieces, MaxPieces)}

\* Simple mappings: bundles named a or b, whose members are the module
\* paths a, b, c and aliases between them.
Names == {<<"a">>, <<"b">>, <<"c">>}
BundleNames == {<<"a">>, <<"b">>}
MemberEntries == {Module(n) : n \in Names} \cup {Alias(n, t) : n \in Names, t \in Names}
MemberLists(k) == [1..k -> MemberEntries]
SimpleMappings ==
  {<<>>}
  \cup {<<<<b, l>>>> : b \in BundleNames, l \in SeqsUpTo(MemberEntries, MaxEntries)}
  \cup UNION {{<<<<bs[1], l1>>, <<bs[2], l2>>>> :
                  bs \in {x \in BundleNames \X BundleNames : x[1] # x[2]},
                  l1 \in MemberLists(ks[1]), l2 \in MemberLists(ks[2])} :
              ks \in {x \in (0..MaxEntries) \X (0..MaxEntries) : x[1] + x[2] <= MaxEntries}}

AssociatorInputs ==
  {[kind |-> "identity", mapping |-> <<>>, path |-> p] : p \in Names}
  \cup {[kind |-> "simple", mapping |-> <<>>, path |-> p] : p \in PiecePaths}
  \cup {[kind |-> "static", mapping |-> m, path |-> p] : m \in SimpleMappings, p \in Names}

InitAssoc ==
  /\ mode = "associator"
  /\ arg \in AssociatorInputs
  /\ out = Pending
  /\ HandlerIdle

\* The associator a configuration constructs.
AssociatorOf(a) ==
  [kind |-> a.kind,
   table |-> IF a.kind = "static" THEN associationsForSimpleMapping(a.mapping)
             ELSE [bundleToModules |-> <<>>, moduleToBundle |-> <<>>, error |-> "none"]]

\* associationsForSimpleMapping throws: no associator is constructed.
RejectMapping ==
  /\ mode = "associator" /\ out.pending
  /\ AssociatorOf(arg).table.error # "none"
  /\ out' = [pending |-> FALSE, error |-> AssociatorOf(arg).table.error]
  /\ UNCHANGED <<mode, arg, server, request, pc, frame, fetches, response, nextCalls>>

\* preferredPath applied to a module path, and again to its result, and
\* associatedModulePaths applied to the module path.
ApplyAssociator ==
  /\ mode = "associator" /\ out.pending
  /\ LET assoc == AssociatorOf(arg) IN
     /\ assoc.table.error = "none"
     /\ out' = [pending |-> FALSE, error |-> "none",
                preferred |-> preferredPath(assoc, arg.path),
                again |-> preferredPath(assoc, preferredPath(assoc, arg.path)),
                members |-> associatedModulePaths(assoc, arg.path)]
  /\ UNCHANGED <<mode, arg, server, request, pc, frame, fetches, response, nextCalls>>

NextAssoc == RejectMapping \/ ApplyAssociator

SpecAssoc == InitAssoc /\ [][NextAssoc]_vars

(***************************************************************************)
(* Specification of the conversions between the two representations of an  *)
(* association table.                                                      *)
(***************************************************************************)
InitTable ==
  /\ mode = "table"
  /\ arg \in [mapping : SimpleMappings]
  /\ out = Pending
  /\ HandlerIdle

\* associationsForSimpleMapping throws: there is no table to convert.
RejectTable ==
  /\ mode = "table" /\ out.pending
  /\ associationsForSimpleMapping(arg.mapping).error # "none"
  /\ out' = [pending |-> FALSE, error |-> associationsForSimpleMapping(arg.mapping).error]
  /\ UNCHANGED <<mode, arg, server, request, pc, frame, fetches, response, nextCalls>>

\* The table of the mapping, its complex mapping, and the table built back
\* from the complex mapping.
ConvertTable ==
  /\ mode = "table" /\ out.pending
  /\ LET table == associationsForSimpleMapping(arg.mapping)
         complex == complexMappingForAssociations(table)
     IN /\ table.error = "none"
        /\ out' = [pending |-> FALSE, error |-> "none",
                   table |-> table,
                   complex |-> complex,
                   back |-> associationsForComplexMapping(complex.packages, complex.mapping)]
  /\ UNCHANGED <<mode, arg, server, request, pc, frame, fetches, response, nextCalls>>

NextTable == RejectTable \/ ConvertTable

SpecTable == InitTable /\ [][NextTable]_vars

(***************************************************************************)
(* Specification of notModified as a pure function.                        *)
(***************************************************************************)
\* The values a date header can have: a date of a whole second from the
\* epoch on, or a text that does not parse.
DateTexts == {DateValue(Seconds(k)) : k \in 0..MaxSeconds} \cup {TextValue("soon")}
EtagTexts == {TextValue(""), TextValue("v1"), TextValue("v2")}

\* All header sets over the given names, each absent or with one of values.
ConditionalValues(k) == IF k = "etag" THEN EtagTexts ELSE DateTexts

HeaderSets(names) ==
  UNION {[ks -> UNION {ConditionalValues(k) : k \in ks}] : ks \in SUBSET names}

InitNotModified ==
  /\ mode = "notModified"
  /\ arg \in [requestHeaders : HeaderSets({"if-modified-since", "etag"}),
              responseHeaders : HeaderSets({"last-modified", "etag"})]
  /\ out = Pending
  /\ HandlerIdle

ApplyNotModified ==
  /\ mode = "notModified" /\ out.pending
  /\ out' = [pending |-> FALSE,
             value |-> notModified(arg.requestHeaders, arg.responseHeaders)]
  /\ UNCHANGED <<mode, arg, server, request, pc, frame, fetches, response, nextCalls>>

NextNotModified == ApplyNotModified

SpecNotModified == InitNotModified /\ [][NextNotModified]_vars

(***************************************************************************)
(* Specification of mergeHeaders as a pure function.                       *)
(***************************************************************************)
\* A header set given as name/value pairs.
Headers(pairs) ==
  [k \in {pairs[i][1] : i \in 1..Len(pairs)} |->
     LET i == CHOOSE j \in 1..Len(pairs) : pairs[j][1] = k IN pairs[i][2]]

\* What one backend member may send: nothing, one header, or all of them;
\* dates on and off whole seconds, texts that do not parse, a max-age
\* directive first or after another directive.
MemberHeaderSets ==
  { NoHeaders,
    Headers(<< <<"date", DateValue(Seconds(1))>> >>),
    Headers(<< <<"last-modified", DateValue(Seconds(2) + 1)>> >>),
    Headers(<< <<"expires", DateValue(Seconds(1))>>, <<"date", TextValue("soon")>> >>),
    Headers(<< <<"cache-control", MaxAgeValue("", 0)>> >>),
    Headers(<< <<"cache-control", MaxAgeValue("public, ", 1)>> >>),
    Headers(<< <<"cache-control", TextValue("no-cache")>> >>),
    Headers(<< <<"date", DateValue(Seconds(1))>>, <<"last-modified", DateValue(Seconds(1))>>,
               <<"expires", DateValue(Seconds(2))>>, <<"cache-control", MaxAgeValue("", 2)>>,
               <<"content-type", TextValue("text/javascript")>>,
               <<"etag", TextValue("v1")>> >>),
    Headers(<< <<"date", DateValue(Seconds(2))>>, <<"last-modified", DateValue(Seconds(2))>>,
               <<"expires", DateValue(Seconds(1))>>, <<"cache-control", MaxAgeValue("", 1)>>,
               <<"content-type", TextValue("text/plain")>>,
               <<"etag", TextValue("v2")>> >>),
    Headers(<< <<"date", DateValue(Seconds(2) + 1)>>, <<"last-modified", DateValue(0)>>,
               <<"expires", DateValue(0)>>, <<"cache-control", MaxAgeValue("", 0)>> >>) }

PermutationsOf(n) == {f \in [1..n -> 1..n] : \A i, j \in 1..n : f[i] = f[j] => i = j}
Permuted(list, perm) == [i \in 1..Len(list) |-> list[perm[i]]]

InitMerge ==
  /\ mode = "mergeHeaders"
  /\ \E n \in 0..MaxMembers :
       arg \in [headersList : [1..n -> MemberHeaderSets], perm : PermutationsOf(n)]
  /\ out = Pending
  /\ HandlerIdle

\* mergeHeaders applied to the list, and to the list permuted.
ApplyMergeHeaders ==
  /\ mode = "mergeHeaders" /\ out.pending
  /\ out' = [pending |-> FALSE,
             value |-> mergeHeaders(arg.headersList),
             permuted |-> mergeHeaders(Permuted(arg.headersList, arg.perm))]
  /\ UNCHANGED <<mode, arg, server, request, pc, frame, fetches, response, nextCalls>>

NextMerge == ApplyMergeHeaders

SpecMerge == InitMerge /\ [][NextMerge]_vars

(***************************************************************************)
(* Specification of the Server constructor.                                *)
(***************************************************************************)
\* Namespace paths an embedder may configure: not given, empty, with and
\* without slashes, equal, nested and disjoint ones.
PathOptions ==
  { Null, <<>>, <<"/">>, Str_r, <<"/", "r", "/">>, Str_l, <<"r", "/", "x">>, <<"r", "x">> }

ConstructorOptions ==
  [rootURI : {Null, <<"R">>, InvalidURI}, rootPath : PathOptions,
   libraryURI : {Null, <<"L">>, InvalidURI}, libraryPath : PathOptions,
   baseURI : {Null, <<"B">>}]

InitServer ==
  /\ mode = "constructor"
  /\ arg \in ConstructorOptions
  /\ out = Pending
  /\ HandlerIdle

\* new Server(options) throws.
RejectOptions ==
  /\ mode = "constructor" /\ out.pending
  /\ ServerNewError(arg) # "none"
  /\ out' = [pending |-> FALSE, error |-> ServerNewError(arg)]
  /\ UNCHANGED <<mode, arg, server, request, pc, frame, fetches, response, nextCalls>>

\* new Server(options) returns an instance.
ConstructServer ==
  /\ mode = "constructor" /\ out.pending
  /\ ServerNewError(arg) = "none"
  /\ out' = [pending |-> FALSE, error |-> "none"]
  /\ server' = ServerNew(arg, NoAssociator)
  /\ UNCHANGED <<mode, arg, request, pc, frame, fetches, response, nextCalls>>

NextServer == RejectOptions \/ ConstructServer

SpecServer == InitServer /\ [][NextServer]_vars

(***************************************************************************)
(* Specification of one Server handling several requests concurrently.     *)
(* Each call of handle has its own async body (request, position, locals,  *)
(* fetches, response, next); the bodies interleave at their awaits and     *)
(* share the Server instance.  `arg` keeps the instance as constructed and *)
(* `out` what the backend delivered to each body, in order.                *)
(***************************************************************************)
Handlers == 1..MaxHandlers

ConcurrentServer ==
  ServerNew([rootURI |-> <<"R">>, rootPath |-> Str_r, libraryURI |-> <<"L">>,
             libraryPath |-> Str_l, baseURI |-> Null],
            [kind |-> "static", table |-> associationsForSimpleMapping(StaticMapping)])

ConcurrentRequests ==
  LET Req(method, pathname, query, hasNext) ==
        [method |-> method,
         url |-> [malformed |-> FALSE, pathname |-> pathname, query |-> query],
         headers |-> [k \in {"if-modified-since"} |-> DateValue(Seconds(1))],
         hasNext |-> hasNext]
  IN { Req("GET", <<"/", "l", "/", "a">>, CallbackX, TRUE),
       Req("GET", <<"/", "l", "/", "b">>, CallbackX, FALSE),
       Req("HEAD", <<"/", "l", "/", "a">>, <<>>, FALSE),
       Req("HEAD", <<"/", "r", "/", "c">>, CallbackX, TRUE),
       Req("POST", <<"/", "l", "/", "a">>, CallbackX, FALSE),
       Req("GET", <<"/", "x">>, <<>>, TRUE) }

ConcurrentReplies ==
  { [status |-> 200, headers |-> BackendHeaders(Seconds(2))],
    [status |-> 405, headers |-> BackendHeaders(Seconds(1))] }

\* A handle that drops the associator of the instance.
ServerAfterHandleForgetful(sv, req) == [sv EXCEPT !.associator = NoAssociator]

\* The Server instance after a call of handle: handle reads this._rootPath,
\* this._libraryPath, this._libraryURI, this._baseURI, this._associator and
\* this._requestURIs and assigns none of them.
ServerAfterHandle(sv, req) == sv

\* The continuation of the await at position p, given the backend's replies.
Continue(req, f, fs, p, replies) ==
  CASE p = "awaitDirect" -> HandleDirectReply(req, f, fs, replies[1])
    [] p = "awaitHead" -> HandleHeadReply(req, f, fs, replies)
    [] OTHER -> HandleGetReply(req, f, fs, replies)

InitConcurrent ==
  /\ mode = "concurrent"
  /\ server = ConcurrentServer
  /\ arg = [server |-> server]
  /\ out = [h \in Handlers |-> <<>>]
  /\ request = [h \in Handlers |-> NoRequest]
  /\ pc = [h \in Handlers |-> "idle"]
  /\ frame = [h \in Handlers |-> EmptyFrame]
  /\ fetches = [h \in Handlers |-> <<>>]
  /\ response = [h \in Handlers |-> NoResponse]
  /\ nextCalls = [h \in Handlers |-> <<>>]

BecomeAt(h, o) ==
  /\ pc' = [pc EXCEPT ![h] = o.pc]
  /\ frame' = [frame EXCEPT ![h] = o.frame]
  /\ fetches' = [fetches EXCEPT ![h] = o.fetches]
  /\ response' = [response EXCEPT ![h] = o.response]
  /\ nextCalls' = [nextCalls EXCEPT ![h] = o.nextCalls]

\* handle is called for one more request and runs up to its first await.
StartRequest(h) ==
  /\ mode = "concurrent" /\ pc[h] = "idle"
  /\ \E req \in ConcurrentRequests :
        /\ request' = [request EXCEPT ![h] = req]
        /\ BecomeAt(h, HandleStart(server, req))
        /\ server' = ServerAfterHandle(server, req)
  /\ UNCHANGED <<mode, arg, out>>

\* The fetch awaited by one of the bodies calls back.
Deliver(h) ==
  /\ mode = "concurrent" /\ pc[h] \in {"awaitDirect", "awaitHead", "awaitGet"}
  /\ \E replies \in [1..Len(fetches[h][Len(fetches[h])].uris) -> ConcurrentReplies] :
        /\ BecomeAt(h, Continue(request[h], frame[h], fetches[h], pc[h], replies))
        /\ out' = [out EXCEPT ![h] = Append(@, [failed |-> FALSE, replies |-> replies])]
  /\ UNCHANGED <<mode, arg, server, request>>

\* The fetch awaited by one of the bodies fails.
FailFetch(h) ==
  /\ mode = "concurrent" /\ pc[h] \in {"awaitDirect", "awaitHead", "awaitGet"}
  /\ BecomeAt(h, Caught(request[h], frame[h], fetches[h]))
  /\ out' = [out EXCEPT ![h] = Append(@, [failed |-> TRUE, replies |-> <<>>])]
  /\ UNCHANGED <<mode, arg, server, request>>

NextConcurrent == \E h \in Handlers : StartRequest(h) \/ Deliver(h) \/ FailFetch(h)

SpecConcurrent == InitConcurrent /\ [][NextConcurrent]_vars

(***************************************************************************)
(* Specification of a client that follows the redirects of a Server: it    *)
(* requests a bundle and, when it is answered 307, requests the URL the    *)
(* Location header resolves to against the URL it requested.               *)
(***************************************************************************)
FollowOptions ==
  [rootURI |-> <<"R">>, rootPath |-> Str_r, libraryURI |-> <<"L">>, libraryPath |-> Str_l,
   baseURI |-> Null]

FollowInputs ==
  {[kind |-> "simple", mapping |-> <<>>, pathname |-> <<"/", "l", "/">> \o p] :
      p \in PiecePaths}
  \cup {[kind |-> "static", mapping |-> m, pathname |-> <<"/", "l", "/">> \o p] :
          m \in {x \in SimpleMappings : associationsForSimpleMapping(x).error = "none"},
          p \in Names}

ClientRequest(pathname) ==
  [method |-> "GET",
   url |-> [malformed |-> FALSE, pathname |-> pathname, query |-> CallbackX],
   headers |-> NoHeaders, hasNext |-> FALSE]

InitFollow ==
  /\ mode = "follow"
  /\ arg \in FollowInputs
  /\ server = ServerNew(FollowOptions, AssociatorOf(arg))
  /\ out = [pending |-> TRUE, pathname |-> arg.pathname, hops |-> 0]
  /\ request = NoRequest /\ pc = "idle" /\ frame = EmptyFrame
  /\ fetches = <<>> /\ response = NoResponse /\ nextCalls = <<>>

\* handle answered 307.
Redirected(o) ==
  o.pc = "done" /\ Len(o.response.heads) = 1 /\ o.response.heads[1].status = 307

\* The path of the Location header of a 307: the text before the query.
LocationPath(o) ==
  LET location == o.response.heads[1].headers["Location"].text
      q == IndexOfChar(location, "?")
  IN IF q = 0 THEN location ELSE SubSeq(location, 1, q - 1)

\* The client sends its request, is answered 307 and turns to the URL the
\* Location designates.
FollowRedirect ==
  /\ mode = "follow" /\ out.pending /\ out.hops < MaxHops
  /\ LET o == HandleStart(server, ClientRequest(out.pathname)) IN
     /\ Redirected(o)
     /\ request' = ClientRequest(out.pathname)
     /\ Become(o)
     /\ out' = [out EXCEPT !.pathname = ResolveReference(out.pathname, LocationPath(o)),
                           !.hops = @ + 1]
  /\ UNCHANGED <<mode, arg, server>>

\* The client sends its request and handle does not answer 307.
Settle ==
  /\ mode = "follow" /\ out.pending
  /\ LET o == HandleStart(server, ClientRequest(out.pathname)) IN
     /\ ~Redirected(o)
     /\ request' = ClientRequest(out.pathname)
     /\ Become(o)
     /\ out' = [out EXCEPT !.pending = FALSE]
  /\ UNCHANGED <<mode, arg, server>>

NextFollow == FollowRedirect \/ Settle

\* The client does send the request it has pending.
SpecFollow == InitFollow /\ [][NextFollow]_vars /\ WF_vars(NextFollow)

(***************************************************************************)
(* Properties.                                                             *)
(***************************************************************************)
Handled == mode = "handle" /\ pc # "idle"
Responded == Handled /\ response.ended > 0 /\ Len(response.heads) > 0
ResponseStatus == response.heads[1].status
Is307 == Responded /\ ResponseStatus = 307

\* The request resolved to a module path and its method is GET or HEAD.
ResolvedGetOrHead ==
  /\ Handled
  /\ frame.modulePath # Null /\ frame.modulePath # <<>>
  /\ request.method \in {"GET", "HEAD"}

\* ... and it carries a callback parameter that passed both checks.
ValidCallback ==
  /\ SearchParamsHas(URLSearch(request.url.query), CallbackName)
  /\ MatchesCallbackExpression(SearchParamsGet(URLSearch(request.url.query), CallbackName))

\* The canonical path of the requested module, by the configured
\* associator (identity when none is set).
PreferredOfRequest ==
  IF server.associator.kind # "unset"
  THEN preferredPath(server.associator, frame.modulePath) ELSE frame.modulePath

AllEqual(statuss) == \A i, j \in 1..Len(statuss) : statuss[i] = statuss[j]

HeadFanOutDone == Handled /\ frame.headStatuss # <<>>
GetFanOutIssued == Len(fetches) = 2 /\ fetches[2].method = "GET"
GetFanOutDone == Handled /\ frame.getStatuss # <<>>

\* What the HEAD phase concluded.
HeadAll304 == \A i \in 1..Len(frame.headStatuss) : frame.headStatuss[i] = 304
HeadNotModified == notModified(frame.requestHeaders, frame.headHeaders)

\* C1 (as claimed): every GET or HEAD request that resolves to a module
\* path p is answered 307 if and only if preferredPath(p) # p.
C1_RedirectIffNotPreferred ==
  (ResolvedGetOrHead /\ pc = "done") => (Is307 <=> PreferredOfRequest # frame.modulePath)

\* C1 (amended): every GET or HEAD request that resolves to a module path p
\* and carries a valid callback parameter is answered 307 if and only if
\* preferredPath(p) # p.
C1_RedirectIffNotPreferredWithCallback ==
  (ResolvedGetOrHead /\ ValidCallback) => (Is307 <=> PreferredOfRequest # frame.modulePath)

C1_Witness ==
  /\ Is307 /\ request.method = "HEAD"
  /\ frame.modulePath = <<"b">> /\ PreferredOfRequest = <<"a">>

\* C2: for normalized paths from # to, resolving relativePath(from, to) as a
\* relative reference against `from` gives back exactly `to`; the result is
\* never the empty string; and the literal pairs give the literal results.
C2_RelativeResolves ==
  LET Case(f, t, want) == (arg.from = f /\ arg.to = t) => out.value = want IN
  (mode = "relativePath" /\ ~out.pending /\ arg.from # arg.to) =>
     /\ out.value # <<>>
     /\ ResolveReference(arg.from, out.value) = arg.to
     /\ Case(<<"a">>, <<"b">>, <<"b">>)
     /\ Case(<<"a", "/">>, <<"a">>, <<".", ".", "/", "a">>)
     /\ Case(<<"a">>, <<"a", "/">>, <<"a", "/">>)
     /\ Case(<<"a">>, <<"a", "/", "b">>, <<"a", "/", "b">>)
     /\ Case(<<"a", "/", "b">>, <<"a">>, <<".", ".", "/", "a">>)
     /\ Case(<<"a", "/">>, <<"a", "/", "b">>, <<"b">>)
     /\ Case(<<"a", "/", "b">>, <<"a", "/">>, <<".", "/">>)

C2_Witness ==
  /\ mode = "relativePath"
  /\ arg = [from |-> <<"a", "/", "b">>, to |-> <<"a", "/">>]
  /\ ~out.pending /\ out.value = <<".", "/">>

\* The Location header of the response and its part before the last n
\* characters.
Location == response.heads[1].headers["Location"].text
LocationBefore(n) == SubSeq(Location, 1, Len(Location) - n)

\* C3 (as claimed): the Location of every 307 redirect ends with the
\* query string of the request as it was sent, character for character.
C3_LocationEndsWithRequestQuery ==
  Is307 => EndsWith(Location, request.url.query)

\* C3 (amended): the Location of every 307 redirect is a location without
\* a query followed by url.search, the query string as the URL parser
\* serializes it; that is the request's query string character for
\* character whenever it has no character of the query encode set.
C3_LocationEndsWithSearch ==
  Is307 =>
    LET search == URLSearch(request.url.query) IN
    /\ EndsWith(Location, search)
    /\ IndexOfChar(LocationBefore(Len(search)), "?") = 0
    /\ (\A i \in 1..Len(request.url.query) : request.url.query[i] \notin QueryEncodeSet)
         => EndsWith(Location, request.url.query)

C3_Witness ==
  /\ Is307
  /\ server.baseURI # Null
  /\ request.url.query = CallbackQuote \o <<"&", "y", "=", "1">>
  /\ EndsWith(Location, <<"=", "%", "2", "2", "&", "y", "=", "1">>)

Applied == mode = "associator" /\ ~out.pending /\ out.error = "none"

\* C4: canonicalization is idempotent for every associator variant:
\* preferredPath(preferredPath(p)) = preferredPath(p).
C4_Idempotent == Applied => out.again = out.preferred

\* C5: the payload of a GET bundle request that reached packaging has one
\* entry per member path, in the order of associatedModulePaths; entry i is
\* a wrapper around body i when GET status i is 200 and null otherwise; the
\* request is answered whatever the member statuses are.
C5_PayloadFollowsMembers ==
  (GetFanOutDone /\ request.method = "GET") =>
    /\ Responded /\ ResponseStatus \in {200, 304}
    /\ Len(response.bodies) = 1
    /\ LET entries == response.bodies[1].entries IN
       /\ Len(entries) = Len(frame.modulePaths)
       /\ \A i \in 1..Len(entries) :
            /\ entries[i].key =
                 escapeNonAlphanumerics(frame.modulePaths[i].name, PathKeyExceptions)
            /\ entries[i].null <=> frame.getStatuss[i] # 200
            /\ ~entries[i].null => entries[i].body = Content(frame.resourceURIs[i], 200)

\* C6: in the bundle path, if every member's HEAD status is 304 or
\* notModified holds against the merged HEAD headers, the response is a 304
\* without a body and no GET fan-out was issued.
C6_HeadPhase304 ==
  (HeadFanOutDone /\ (HeadAll304 \/ HeadNotModified)) =>
    /\ pc = "done" /\ Responded /\ ResponseStatus = 304
    /\ response.bodies = <<>>
    /\ Len(fetches) = 1

C6_Witness ==
  /\ HeadFanOutDone /\ request.method = "GET"
  /\ ~HeadAll304 /\ HeadNotModified
  /\ Len(frame.headStatuss) > 1
  /\ Responded

\* The fan-out the response was computed from: its statuses and the
\* headers merged from it.
LastStatuss == IF frame.getStatuss # <<>> THEN frame.getStatuss ELSE frame.headStatuss
LastHeaders == IF frame.getStatuss # <<>> THEN frame.getHeaders ELSE frame.headHeaders

\* C7 (as claimed): when the member statuses of a fan-out are not all
\* equal, the bundle response is never 304.
C7_MismatchNever304 ==
  (Responded /\ HeadFanOutDone /\ ~AllEqual(LastStatuss)) => ResponseStatus # 304

\* C7 (amended): when the member statuses of the fan-out the response is
\* computed from are not all equal, the bundle response is 304 exactly when
\* notModified holds against the headers merged from that fan-out.
C7_Mismatch304OnlyIfNotModified ==
  (Responded /\ HeadFanOutDone /\ ~AllEqual(LastStatuss))
    => (ResponseStatus = 304 <=> notModified(frame.requestHeaders, LastHeaders))

C7_Witness ==
  /\ Responded /\ HeadFanOutDone /\ ~AllEqual(LastStatuss)
  /\ ResponseStatus = 304

\* C8: a HEAD bundle request that the HEAD phase did not answer 304, and
\* for which some member's HEAD returned 405 or the HEAD statuses are not
\* all equal, is answered only after a GET fan-out was issued.
C8_HeadUnhelpfulForcesGet ==
  (Responded /\ HeadFanOutDone /\ request.method = "HEAD"
     /\ ~(HeadAll304 \/ HeadNotModified)
     /\ ((\E i \in 1..Len(frame.headStatuss) : frame.headStatuss[i] = 405)
         \/ ~AllEqual(frame.headStatuss)))
    => GetFanOutIssued

\* The case of C9: a HEAD bundle request whose member HEAD statuses are all
\* the same s, s neither 304 nor 405, and notModified does not hold.
C9_Case ==
  /\ HeadFanOutDone /\ request.method = "HEAD"
  /\ AllEqual(frame.headStatuss)
  /\ frame.headStatuss[1] \notin {304, 405}
  /\ ~HeadNotModified

\* C9 (as claimed): in that case the response is made without a GET
\* fan-out and its status is the merged status s.
C9_HeadAnswersMergedStatus ==
  C9_Case => /\ pc = "done" /\ Responded /\ Len(fetches) = 1
             /\ ResponseStatus = frame.headStatuss[1]

\* C9 (amended): in that case the response is made without a GET fan-out
\* and its status is 200.
C9_HeadAnswers200 ==
  C9_Case => /\ pc = "done" /\ Responded /\ Len(fetches) = 1
             /\ ResponseStatus = 200

C9_Witness == C9_Case /\ frame.headStatuss[1] = 404 /\ Responded /\ ResponseStatus = 200

EtagsEqual ==
  /\ "etag" \in DOMAIN arg.requestHeaders /\ "etag" \in DOMAIN arg.responseHeaders
  /\ arg.requestHeaders["etag"] = arg.responseHeaders["etag"]
LastModifiedNotAfter ==
  /\ DateParse(arg.responseHeaders, "last-modified") # NaN
  /\ DateParse(arg.requestHeaders, "if-modified-since") # NaN
  /\ DateParse(arg.responseHeaders, "last-modified")
        <= DateParse(arg.requestHeaders, "if-modified-since")

\* C11: notModified holds if and only if the request and response etag
\* values are equal, or the response last-modified parses and is not after
\* the request's if-modified-since, for every parseable timestamp (the
\* epoch included) and for absent headers.
C11_NotModifiedIff ==
  (mode = "notModified" /\ ~out.pending) =>
     (out.value <=> (EtagsEqual \/ LastModifiedNotAfter))

Merged == mode = "mergeHeaders" /\ ~out.pending
MergedNonEmpty == Merged /\ Len(arg.headersList) > 0
Members == 1..Len(arg.headersList)

\* Every member supplies a date for header k / a max-age directive.
AllDates(k) ==
  \A i \in Members : k \in DOMAIN arg.headersList[i] /\ arg.headersList[i][k].kind = "date"
AllMaxAges ==
  \A i \in Members : /\ "cache-control" \in DOMAIN arg.headersList[i]
                     /\ arg.headersList[i]["cache-control"].kind = "cache-control"
MemberDates(k) == {arg.headersList[i][k].ms : i \in Members}
MemberMaxAges == {arg.headersList[i]["cache-control"].maxAge : i \in Members}

\* v is the date t, at the one-second resolution of a date header.
IsSecondOf(v, t) ==
  /\ v.kind = "date" /\ v.ms % TicksPerSecond = 0
  /\ v.ms <= t /\ t < v.ms + TicksPerSecond

\* C12: for a non-empty list, mergeHeaders gives date = the latest member
\* date, last-modified = the latest, expires = the earliest, cache-control =
\* max-age of the smallest member max-age; each of the four is present if
\* and only if every member supplies a parseable value for it; no other
\* header is in the result.
C12_MergeHeaders ==
  MergedNonEmpty =>
    /\ DOMAIN out.value \subseteq {"date", "last-modified", "expires", "cache-control"}
    /\ \A k \in {"date", "last-modified", "expires"} :
         /\ k \in DOMAIN out.value <=> AllDates(k)
         /\ AllDates(k) =>
              IsSecondOf(out.value[k],
                         IF k = "expires" THEN SetMin(MemberDates(k))
                         ELSE SetMax(MemberDates(k)))
    /\ "cache-control" \in DOMAIN out.value <=> AllMaxAges
    /\ AllMaxAges => out.value["cache-control"] = MaxAgeValue("", SetMin(MemberMaxAges))

\* C13: mergeHeaders is order-independent: merging any permutation of a
\* list of header sets gives the same result as merging the list.
C13_OrderIndependent == Merged => out.permuted = out.value

C13_Witness ==
  /\ Merged
  /\ Len(arg.headersList) = 3
  /\ arg.perm = <<3, 1, 2>>
  /\ arg.headersList[1] # arg.headersList[2] /\ arg.headersList[2] # arg.headersList[3]
  /\ DOMAIN out.value = {"date", "last-modified", "expires", "cache-control"}
  /\ out.permuted = out.value

\* The request went down the direct proxy and the backend has replied.
DirectProxied ==
  /\ ResolvedGetOrHead
  /\ ~SearchParamsHas(URLSearch(request.url.query), CallbackName)
  /\ pc = "done"

\* One backend GET, for the resource URI of the requested module.
OneDirectGet ==
  /\ Len(fetches) = 1
  /\ fetches[1].via = "requestURI" /\ fetches[1].method = "GET"
  /\ fetches[1].uris = <<resourceURIForModulePath(server, frame.modulePath)>>

ResponseHeaders == response.heads[1].headers
NotFoundText == TextValue("404: The requested resource could not be found.")

\* The response of the direct proxy for the backend's status; withBody says
\* whether the 200 and 404 responses carry their body.
DirectShape(withBody) ==
  LET backend == frame.directStatus
      passed == selectProperties(frame.directHeaders, HEADER_WHITELIST)
  IN CASE backend = 200 ->
            /\ ResponseStatus = 200
            /\ "content-type" \in DOMAIN ResponseHeaders
            /\ ResponseHeaders["content-type"] = JavaScriptType
            /\ response.bodies = IF withBody THEN <<Content(fetches[1].uris[1], 200)>> ELSE <<>>
       [] backend = 404 ->
            /\ ResponseStatus = 404
            /\ "content-type" \in DOMAIN ResponseHeaders
            /\ ResponseHeaders["content-type"] = TextValue("text/plain; charset=utf-8")
            /\ response.bodies = IF withBody THEN <<NotFoundText>> ELSE <<>>
       [] OTHER ->
            /\ "content-type" \notin DOMAIN ResponseHeaders
            /\ response.bodies = <<>>
            /\ ResponseStatus = IF notModified(frame.requestHeaders, passed) THEN 304
                                ELSE backend

\* C14 (as claimed): a GET or HEAD request for a resolvable module path
\* without a callback parameter issues exactly one backend GET for the
\* module's resource URI and is answered by the backend status: 200 with
\* the JavaScript content type and the backend body, 404 with a plain-text
\* not-found body, any other status without content type and body and
\* replaced by 304 exactly when notModified holds.
C14_DirectProxyWithBody ==
  DirectProxied => (OneDirectGet /\ Responded /\ DirectShape(TRUE))

\* C14 (amended): the same, the body of the 200 and 404 responses being
\* written for a GET request only; a HEAD request gets the same status and
\* headers without a body.
C14_DirectProxy ==
  DirectProxied => (OneDirectGet /\ Responded /\ DirectShape(request.method = "GET"))

C14_Witness ==
  /\ DirectProxied /\ request.method = "GET"
  /\ frame.directStatus = 405 /\ ResponseStatus = 304
  /\ "last-modified" \in DOMAIN ResponseHeaders

\* The entries of the mapping under check, all bundles together.
MappingEntries ==
  UNION {{arg.mapping[i][2][j] : j \in 1..Len(arg.mapping[i][2])} : i \in 1..Len(arg.mapping)}
IsAliasName(n) == \E e \in MappingEntries : IsAlias(e) /\ e.name = n
TargetOf(n) == (CHOOSE e \in MappingEntries : IsAlias(e) /\ e.name = n).target

\* The path the chain of alias targets from n ends at.
RECURSIVE ChainEnd(_, _)
ChainEnd(n, fuel) ==
  IF fuel = 0 \/ ~IsAliasName(n) THEN n ELSE ChainEnd(TargetOf(n), fuel - 1)

AliasLookup ==
  /\ Applied /\ arg.kind = "static"
  /\ IsAliasName(arg.path)

\* C15: in a table built without error from a simple mapping, the
\* preferred path of an alias whose chain of targets ends at the non-alias
\* path r is the member->bundle entry of r when the table has one, and r
\* itself otherwise; a -> b -> c with c listed nowhere gives c.
C15_AliasResolves ==
  AliasLookup =>
    LET r == ChainEnd(arg.path, Cardinality(MappingEntries))
        table == associationsForSimpleMapping(arg.mapping).moduleToBundle
    IN /\ ~IsAliasName(r)
       /\ out.preferred = IF ObjHas(table, r) THEN ObjGet(table, r) ELSE r
       /\ (\A e \in MappingEntries : e.name # r) => out.preferred = r

C15_Witness ==
  /\ AliasLookup
  /\ arg.path = <<"a">>
  /\ Alias(<<"a">>, <<"b">>) \in MappingEntries
  /\ Alias(<<"b">>, <<"c">>) \in MappingEntries
  /\ out.preferred = <<"c">>

\* The alias edges of the mapping under check, and the names from which
\* following them comes back to a name already seen.
AliasEdges == {<<e.name, e.target>> : e \in {x \in MappingEntries : IsAlias(x)}}
RECURSIVE ReachableFrom(_, _)
ReachableFrom(S, fuel) ==
  LET step == S \cup {ed[2] : ed \in {x \in AliasEdges : x[1] \in S}}
  IN IF fuel = 0 \/ step = S THEN S ELSE ReachableFrom(step, fuel - 1)
TargetsOf(n) == {ed[2] : ed \in {x \in AliasEdges : x[1] = n}}
OnCycle(n) == n \in ReachableFrom(TargetsOf(n), Cardinality(AliasEdges))
CyclicAliases == \E ed \in AliasEdges : OnCycle(ed[1])
ConflictingNames ==
  \E e1, e2 \in MappingEntries :
     e1.name = e2.name /\ (e1.kind # e2.kind \/ e1.target # e2.target)

Configured == mode = "associator" /\ arg.kind = "static" /\ ~out.pending

\* C16: alias resolution terminates for every simple mapping (every walk
\* ends at a path without target or at a name already seen, within as many
\* steps as there are names), and a mapping in which following alias
\* targets revisits a name is rejected when the table is built, by the
\* alias-loop error unless a conflicting definition was rejected first; a
\* table that is served has no cyclic alias chain.
C16_AliasCycleRejected ==
  Configured =>
    LET st == SimpleMappingBundles(arg.mapping) IN
    /\ st.error = "none" =>
         \A i \in 1..Len(st.indirections) :
            LET walk == ResolveIndirection(st.indirections, st.indirections[i][1])
            IN /\ walk.loop \/ walk.next = Null
               /\ Cardinality(walk.seen) <= Len(st.indirections) + 1
    /\ CyclicAliases => out.error # "none"
    /\ (CyclicAliases /\ ~ConflictingNames) => out.error = "alias loop"
    /\ out.error = "none" => ~CyclicAliases

C16_Witness ==
  /\ Configured
  /\ MappingEntries = {Alias(<<"a">>, <<"b">>), Alias(<<"b">>, <<"a">>)}
  /\ out.error = "alias loop"

Resolved == Handled /\ frame.modulePath # Null /\ frame.modulePath # <<>>

\* C17: a request that resolves to a module path and whose method is
\* neither GET nor HEAD is answered 405 with allow: HEAD, GET, with or
\* without a callback parameter, without associator lookup and without
\* backend fetch.
C17_OtherMethods405 ==
  (Resolved /\ request.method \notin {"GET", "HEAD"}) =>
    /\ pc = "done" /\ Responded /\ ResponseStatus = 405
    /\ "allow" \in DOMAIN ResponseHeaders
    /\ ResponseHeaders["allow"] = TextValue("HEAD, GET")
    /\ fetches = <<>>
    /\ frame.preferredPath = Null /\ frame.modulePaths = <<>>
    /\ nextCalls = <<>>

C17_Witness ==
  /\ Resolved /\ request.method = "POST"
  /\ request.url.pathname = <<"/", "l", "/", "b">>
  /\ request.url.query = CallbackX
  /\ server.associator.kind = "static"
  /\ ResponseStatus = 405

\* The callback parameter of the request, as url.searchParams gives it.
HasCallback == SearchParamsHas(URLSearch(request.url.query), CallbackName)
CallbackOfRequest == SearchParamsGet(URLSearch(request.url.query), CallbackName)

\* The characters the callback grammar admits.
GrammarCharacters ==
  {"a", "b", "c", "d", "e", "f", "g", "h", "i", "j", "k", "l", "m", "n", "o", "p", "q", "r",
   "s", "t", "u", "v", "w", "x", "y", "z",
   "A", "B", "C", "D", "E", "F", "G", "H", "I", "J", "K", "L", "M", "N", "O", "P", "Q", "R",
   "S", "T", "U", "V", "W", "X", "Y", "Z",
   "0", "1", "2", "3", "4", "5", "6", "7", "8", "9",
   "$", ":", ".", "_", "'", "\"", "\\", "(", ")", "[", "]", "{", "}"}
OutsideGrammar(cb) == \E i \in 1..Len(cb) : cb[i] \notin GrammarCharacters

Answered400(text) ==
  /\ pc = "done" /\ Responded /\ ResponseStatus = 400
  /\ response.bodies = <<TextValue(text)>>
  /\ fetches = <<>>

\* C18: for a GET or HEAD request to a resolvable module path with a
\* callback parameter, an empty callback is answered 400 'must be
\* non-empty', a non-empty one with a character outside the grammar 400
\* 'must match', in both cases without redirect and without backend fetch;
\* a bundle payload is only emitted with a callback that matches the grammar.
C18_CallbackChecked ==
  /\ (ResolvedGetOrHead /\ HasCallback /\ CallbackOfRequest = <<>>) =>
        Answered400("400: The 'callback' parameter must be non-empty.")
  /\ (ResolvedGetOrHead /\ HasCallback /\ OutsideGrammar(CallbackOfRequest)) =>
        Answered400(
          "400: The 'callback' parameter must match /^[a-zA-Z0-9$:._'\"\\\\()[\\]{}]+$/.")
  /\ \A i \in 1..Len(response.bodies) :
        response.bodies[i].kind = "bundle" =>
           /\ response.bodies[i].callback # <<>>
           /\ ~OutsideGrammar(response.bodies[i].callback)
           /\ response.bodies[i].callback = CallbackOfRequest

C18_Witness ==
  /\ ResolvedGetOrHead /\ HasCallback
  /\ CallbackOfRequest = <<"x", "<">>
  /\ request.url.pathname = <<"/", "l", "/", "b">>
  /\ server.associator.kind = "static"
  /\ ResponseStatus = 400

\* The normalized request path starts with neither namespace prefix.
OutsideNamespaces ==
  /\ Handled /\ ~request.url.malformed
  /\ ~StartsWith(normalizePath(request.url.pathname), server.rootPath)
  /\ ~StartsWith(normalizePath(request.url.pathname), server.libraryPath)

\* C19: when the normalized request path starts with neither the root nor
\* the library prefix, no backend fetch is made and either next is called
\* exactly once and nothing is written (a next handler is supplied) or the
\* answer is 404 (none is supplied), whatever the request method is.
C19_UnresolvedPath ==
  OutsideNamespaces =>
    /\ pc = "done" /\ fetches = <<>>
    /\ IF request.hasNext
       THEN nextCalls = <<"next">> /\ response = NoResponse
       ELSE nextCalls = <<>> /\ Responded /\ ResponseStatus = 404

C19_Witness ==
  /\ OutsideNamespaces
  /\ request.method = "POST" /\ request.hasNext
  /\ request.url.query = CallbackX
  /\ nextCalls = <<"next">>

Constructed == mode = "constructor" /\ ~out.pending /\ out.error = "none"

\* The two namespace prefixes of the instance nest.
PrefixesNest ==
  /\ server.rootPath # Null /\ server.libraryPath # Null
  /\ (StartsWith(server.libraryPath, server.rootPath)
      \/ StartsWith(server.rootPath, server.libraryPath))

\* C20: no Server instance exists whose root namespace path is a prefix of
\* its library namespace path or the reverse (an empty path included):
\* construction fails for every such configuration.
C20_PrefixesNeverNest == Constructed => ~PrefixesNest

Awaiting == pc \in {"awaitDirect", "awaitHead", "awaitGet"}

\* The fetch issued last was not answered: the collaborator failed.
FetchFailed ==
  /\ Handled /\ pc \in {"rejected", "unhandledRejection"}
  /\ fetches # <<>> /\ fetches[Len(fetches)].uris # <<>>

\* One head, at most one body (none for a HEAD request or a 304), one end.
OneResponseWritten ==
  /\ Len(response.heads) = 1 /\ Len(response.bodies) <= 1 /\ response.ended = 1
  /\ nextCalls = <<>>

\* An unresolved path handed to the next handler, nothing written.
PassedToNext ==
  /\ ~Resolved /\ request.hasNext
  /\ nextCalls = <<"next">> /\ response = NoResponse

\* C21: every handled request whose backend fetches completed has exactly
\* one terminal outcome: one status/headers/body written and the response
\* ended once, or (unresolved path with a next handler) next called once
\* and nothing written; for every associator result, an empty member list
\* included.
C21_OneTerminalOutcome ==
  (Handled /\ ~Awaiting /\ ~FetchFailed) => (OneResponseWritten \/ PassedToNext)

\* C22: when the fetch collaborator fails during the direct GET, the HEAD
\* fan-out or the GET fan-out, no response is written, no further fetch is
\* issued and the failure is passed on exactly once, with or without a next
\* handler.
C22_FetchFailurePropagates ==
  FetchFailed =>
    /\ response = NoResponse
    /\ ~Awaiting /\ Len(fetches) <= 2
    /\ nextCalls = <<"error">>

\* A response written at the end of the bundle branch.
BundleResponded == Responded /\ HeadFanOutDone

\* C23: every 200 or 304 response of the bundle path carries content-type
\* application/javascript; charset=utf-8 and x-content-type-options:
\* nosniff, and each of its other headers is one of date, last-modified,
\* expires, cache-control.
C23_BundleHeaders ==
  (BundleResponded /\ ResponseStatus \in {200, 304}) =>
    /\ {"content-type", "x-content-type-options"} \subseteq DOMAIN ResponseHeaders
    /\ ResponseHeaders["content-type"] = TextValue("application/javascript; charset=utf-8")
    /\ ResponseHeaders["x-content-type-options"] = TextValue("nosniff")
    /\ DOMAIN ResponseHeaders \subseteq
         {"content-type", "x-content-type-options",
          "date", "last-modified", "expires", "cache-control"}

C23_Witness ==
  /\ BundleResponded /\ ResponseStatus = 304
  /\ GetFanOutDone
  /\ DOMAIN ResponseHeaders =
       {"content-type", "x-content-type-options", "date", "last-modified"}

\* The mapping under conversion lists no Alias.
AliasFree ==
  \A i \in 1..Len(arg.mapping) :
     \A j \in 1..Len(arg.mapping[i][2]) : ~IsAlias(arg.mapping[i][2][j])

Converted == mode = "table" /\ ~out.pending /\ out.error = "none"

\* An object as the function from its keys to their values.
AsMap(o) == [k \in {o[i][1] : i \in 1..Len(o)} |-> ObjGet(o, k)]

\* C24: for the table A of an alias-free simple mapping,
\* associationsForComplexMapping of complexMappingForAssociations(A) is A:
\* the same bundles, the same members in the same order within each bundle,
\* the same member->bundle entries.
C24_RoundTrip ==
  (Converted /\ AliasFree) =>
    /\ AsMap(out.back.bundleToModules) = AsMap(out.table.bundleToModules)
    /\ AsMap(out.back.moduleToBundle) = AsMap(out.table.moduleToBundle)

SimpleApplied == Applied /\ arg.kind = "simple"

\* p with a trailing '/index.js' or '.js' removed, and p when it has neither.
WithoutSuffix(p) ==
  IF EndsWith(p, <<"/">> \o IndexJs) THEN SubSeq(p, 1, Len(p) - Len(IndexJs) - 1)
  ELSE IF EndsWith(p, DotJs) THEN SubSeq(p, 1, Len(p) - Len(DotJs))
  ELSE p

\* C25: for every module path p, SimpleAssociator.associatedModulePaths(p)
\* is [s, s + '.js', s + '/index.js'] and preferredPath(p) is s, s being p
\* without a trailing '.js' or '/index.js', and p itself when p has neither
\* suffix, a path that ends in '/' included.
C25_SimpleTriple ==
  SimpleApplied =>
    LET stem == WithoutSuffix(arg.path) IN
    /\ out.members = <<Module(stem), Module(stem \o DotJs), Module(stem \o <<"/">> \o IndexJs)>>
    /\ out.preferred = stem

\* The resource URIs of the members of the requested bundle, in the
\* associator's order.
MemberURIs ==
  [i \in 1..Len(frame.modulePaths) |->
     resourceURIForModulePath(server, frame.modulePaths[i].name)]

IsFanOut(fetch, method) ==
  fetch.via = "requestURIs" /\ fetch.method = method /\ fetch.uris = MemberURIs

\* The results of the fetch issued last have all been delivered.
LastFetchDelivered ==
  LET last == fetches[Len(fetches)] IN
  CASE last.via = "requestURI" -> frame.directStatus # Undefined
    [] last.method = "HEAD" -> Len(frame.headStatuss) = Len(last.uris)
    [] OTHER -> Len(frame.getStatuss) = Len(last.uris)

\* C26: a request issues nothing, or one direct GET, or one HEAD fan-out, or
\* one HEAD fan-out followed by one GET fan-out; the GET fan-out is issued
\* after the results of the HEAD fan-out were delivered and over the same
\* ordered list of resource URIs, the members' in the associator's order; a
\* direct-proxy request issues exactly one backend GET; a response is
\* written only after the fetch issued last delivered all its results.
C26_PhasesOrdered ==
  /\ \/ fetches = <<>>
     \/ /\ Len(fetches) = 1
        /\ fetches[1].via = "requestURI" /\ fetches[1].method = "GET"
        /\ Len(fetches[1].uris) = 1
     \/ /\ Len(fetches) = 1
        /\ IsFanOut(fetches[1], "HEAD")
     \/ /\ Len(fetches) = 2
        /\ IsFanOut(fetches[1], "HEAD") /\ IsFanOut(fetches[2], "GET")
        /\ fetches[2].uris = fetches[1].uris
        /\ Len(frame.headStatuss) = Len(fetches[1].uris)
  /\ (ResolvedGetOrHead /\ ~HasCallback) => OneDirectGet
  /\ (Responded /\ fetches # <<>>) => (pc = "done" /\ LastFetchDelivered)
  /\ Awaiting => response = NoResponse

C26_Witness ==
  /\ Responded /\ request.method = "GET"
  /\ Len(fetches) = 2 /\ Len(fetches[2].uris) = 2
  /\ fetches[2].uris[1] # fetches[2].uris[2]
  /\ ResponseStatus = 200

\* The request handled alone by the Server as constructed, the backend
\* delivering what `deliveries` lists.
HandledAlone(sv, req, deliveries) ==
  LET F[i \in 0..Len(deliveries)] ==
        IF i = 0 THEN HandleStart(sv, req)
        ELSE LET o == F[i - 1] IN
             IF deliveries[i].failed THEN Caught(req, o.frame, o.fetches)
             ELSE Continue(req, o.frame, o.fetches, o.pc, deliveries[i].replies)
  IN F[Len(deliveries)]

C28_NotModifiedHasNoBody ==
  (Responded /\ ResponseStatus = 304) => response.bodies = <<>>

\* The client's last request was not answered 307.
Settled == mode = "follow" /\ ~out.pending

\* ... and it is answered: a response was written, or the fan-out over the
\* members of the bundle was issued.
SettledWithResponse ==
  /\ Settled
  /\ \/ pc = "done" /\ response.ended = 1
     \/ pc = "awaitHead" /\ fetches[1].uris # <<>>

\* The chain of 307 responses is shorter than the most hops the client
\* follows: the client never stops with a redirect it has not followed.
RedirectsFinite == (mode = "follow" /\ out.pending) => out.hops < MaxHops

\* C29: for SimpleAssociator and for a StaticAssociator over any table
\* built by associationsForSimpleMapping, a client that starts at a module
\* path with a valid callback and follows each 307 to the path it
\* designates reaches a response other than 307 after finitely many steps:
\* its chain of redirects is finite and the request it ends at is answered.
C29_RedirectsEnd ==
  /\ RedirectsFinite
  /\ Settled => SettledWithResponse

\* C30: for the table of every simple mapping, bundles that list Alias
\* entries included, every element that StaticAssociator's
\* associatedModulePaths returns is a plain module path: no Alias is among
\* the members the dispatcher maps to resource URIs and fans out to.
C30_MembersArePaths ==
  (Applied /\ arg.kind = "static") =>
     \A i \in 1..Len(out.members) : ~IsAlias(out.members[i])
====
